---------------------------- MODULE Spec2Model ----------------------------
(***************************************************************************)
(* A model of the FMDL codec of pes-fmdl-blender (src/pes-fmdl/FmdlFile.py) *)
(*                                                                         *)
(* Two layers, as in the source:                                           *)
(*   - FmdlContainer: numbered segment-0 blocks (lists of fixed-size       *)
(*     records) and segment-1 blocks (byte buffers), plus the framed file  *)
(*     that serialises them (readStream / writeStream);                    *)
(*   - FmdlFile: the semantic model (bones, material instances, meshes,    *)
(*     mesh groups) and its translation from and to a container.           *)
(*                                                                         *)
(* Bytes are naturals 0..255, byte strings are sequences of bytes, a       *)
(* Python dict is a function whose DOMAIN is the set of keys, a Python     *)
(* exception is a record [exc, msg].  struct.pack / struct.unpack are      *)
(* modelled little-endian field by field.  A 32-bit float is kept as its   *)
(* four bytes (its bit pattern).                                           *)
(***************************************************************************)
EXTENDS Integers, Sequences, FiniteSets, TLC

VARIABLES
    segment0Blocks,   \* FmdlContainer.segment0Blocks of the container being built
    segment1Blocks,   \* FmdlContainer.segment1Blocks of the container being built
    stream,           \* the bytes of the file last written or crafted
    loaded,           \* the fresh container readStream filled: [seg0, seg1, err]
    bones,            \* FmdlFile.bones
    materialInstances,\* FmdlFile.materialInstances
    meshes,           \* FmdlFile.meshes
    meshGroups,       \* FmdlFile.meshGroups
    raised,           \* the exception the last FmdlFile operation raised
    firstRead,        \* the four fields as the first readFile left them
    args,             \* the arguments of the function being applied
    ret,              \* what the function returned or raised
    phase             \* which operation acted last

containerVars == <<segment0Blocks, segment1Blocks, stream, loaded>>
modelVars == <<bones, materialInstances, meshes, meshGroups, raised, firstRead>>
callVars == <<args, ret>>
vars == <<containerVars, modelVars, callVars, phase>>

(***************************************************************************)
(* Generic helpers                                                         *)
(***************************************************************************)
Min(a, b) == IF a < b THEN a ELSE b
Max(a, b) == IF a > b THEN a ELSE b

Range(s) == {s[i] : i \in DOMAIN s}

\* n zero bytes: bytearray(n)
Zeros(n) == [i \in 1..n |-> 0]

RECURSIVE Concat(_)
\* bytearray(0).join(list)
Concat(list) ==
    IF list = <<>> THEN <<>> ELSE Head(list) \o Concat(Tail(list))

\* the ascending list of the members of a finite set of integers
RECURSIVE SortedSeq(_)
SortedSeq(S) ==
    IF S = {} THEN <<>>
    ELSE LET m == CHOOSE x \in S : \A y \in S : x <= y
         IN  <<m>> \o SortedSeq(S \ {m})

\* exceptions
NoError == [exc |-> "none", msg |-> ""]
Raise(exc, msg) == [exc |-> exc, msg |-> msg]
InvalidFmdl(msg) == Raise("InvalidFmdl", msg)

(***************************************************************************)
(* struct.pack / struct.unpack, little-endian ('<')                        *)
(***************************************************************************)
\* an unsigned integer v as n little-endian bytes
RECURSIVE PackUInt(_, _)
PackUInt(v, n) ==
    IF n = 0 THEN <<>> ELSE <<v % 256>> \o PackUInt(v \div 256, n - 1)

\* 'h': a signed 16-bit integer, two's complement
PackInt16(v) == PackUInt(IF v < 0 THEN v + 65536 ELSE v, 2)

\* the unsigned integer in the n bytes of b that start at offset pos (0-based)
RECURSIVE UnpackUInt(_, _, _)
UnpackUInt(b, pos, n) ==
    IF n = 0 THEN 0 ELSE b[pos + 1] + 256 * UnpackUInt(b, pos + 1, n - 1)

UnpackInt16(b, pos) ==
    LET u == UnpackUInt(b, pos, 2) IN IF u >= 32768 THEN u - 65536 ELSE u

\* stream.readinto(bytearray(n)) with the cursor at pos: the bytes obtained
ReadAt(s, pos, n) ==
    IF pos >= Len(s) THEN <<>> ELSE SubSeq(s, pos + 1, Min(pos + n, Len(s)))


(***************************************************************************)
(* FmdlContainer                                                           *)
(***************************************************************************)
\* b'FMDL'
MAGIC == <<70, 77, 68, 76>>

\* 0x4001eb85 as the four bytes pack('< I') gives
VERSION_2_03 == <<133, 235, 1, 64>>

SECTION0_BLOCK_ENTRY_SIZES ==
    (0 :> 48) @@ (1 :> 8) @@ (2 :> 32) @@ (3 :> 48) @@ (4 :> 16) @@
    (5 :> 68) @@ (6 :> 4) @@ (7 :> 4) @@ (8 :> 4) @@ (9 :> 8) @@
    (10 :> 8) @@ (11 :> 4) @@ (12 :> 8) @@ (13 :> 32) @@ (14 :> 16) @@
    (16 :> 16) @@ (17 :> 8) @@ (18 :> 8) @@ (20 :> 128)

\* FmdlContainer.__init__
NewContainer ==
    [version |-> VERSION_2_03, seg0 |-> <<>>, seg1 |-> <<>>, err |-> NoError]

\* d[k] = v on a dict
DictSet(d, k, v) == (k :> v) @@ d

\* the header fields readStream unpacks with '< 4s I Q QQ II II II'
UnpackHeader(header) ==
    [magic              |-> SubSeq(header, 1, 4),
     version            |-> SubSeq(header, 5, 8),
     descriptorsOffset  |-> UnpackUInt(header, 8, 8),
     section0Bitmap     |-> SubSeq(header, 17, 24),
     section1Bitmap     |-> SubSeq(header, 25, 32),
     section0BlockCount |-> UnpackUInt(header, 32, 4),
     section1BlockCount |-> UnpackUInt(header, 36, 4),
     section0Offset     |-> UnpackUInt(header, 40, 4),
     section0Length     |-> UnpackUInt(header, 44, 4),
     section1Offset     |-> UnpackUInt(header, 48, 4),
     section1Length     |-> UnpackUInt(header, 52, 4)]

\* the raw descriptors, read one after the other from position pos
RawDescriptors(s, pos, count, size) ==
    [i \in 1..count |-> ReadAt(s, pos + size * (i - 1), size)]

\* unpack('< H H I'): (blockID, entryCount, blockOffset)
UnpackDescriptor0(d) ==
    [blockID |-> UnpackUInt(d, 0, 2),
     entryCount |-> UnpackUInt(d, 2, 2),
     blockOffset |-> UnpackUInt(d, 4, 4)]

\* unpack('< I I I'): (blockID, blockOffset, length)
UnpackDescriptor1(d) ==
    [blockID |-> UnpackUInt(d, 0, 4),
     blockOffset |-> UnpackUInt(d, 4, 4),
     length |-> UnpackUInt(d, 8, 4)]

\* the entries of one segment-0 block, read one after the other
ReadEntries(s, pos, entryCount, entrySize) ==
    [i \in 1..entryCount |-> ReadAt(s, pos + entrySize * (i - 1), entrySize)]

RECURSIVE ReadSection0Overwriting(_, _, _, _)
\* the loop over section0Descriptors without the test "blockID in
\* self.segment0Blocks": a later block replaces an earlier one
ReadSection0Overwriting(s, descriptors, section0Offset, c) ==
    IF descriptors = <<>> THEN c
    ELSE IF Head(descriptors).blockID \notin DOMAIN SECTION0_BLOCK_ENTRY_SIZES
    THEN ReadSection0Overwriting(s, Tail(descriptors), section0Offset, c)
    ELSE IF \E i \in 1..Head(descriptors).entryCount :
                Len(ReadEntries(s, Head(descriptors).blockOffset + section0Offset,
                        Head(descriptors).entryCount,
                        SECTION0_BLOCK_ENTRY_SIZES[Head(descriptors).blockID])[i])
                    # SECTION0_BLOCK_ENTRY_SIZES[Head(descriptors).blockID]
    THEN [c EXCEPT !.err = InvalidFmdl(
             "Unexpected end of file reading section 0 block entry")]
    ELSE ReadSection0Overwriting(s, Tail(descriptors), section0Offset,
             [c EXCEPT !.seg0 = DictSet(c.seg0, Head(descriptors).blockID,
                 ReadEntries(s, Head(descriptors).blockOffset + section0Offset,
                     Head(descriptors).entryCount,
                     SECTION0_BLOCK_ENTRY_SIZES[Head(descriptors).blockID]))])

RECURSIVE ReadSection0(_, _, _, _)
\* the loop over section0Descriptors: c is the container so far
ReadSection0(s, descriptors, section0Offset, c) ==
    IF descriptors = <<>> THEN c
    ELSE LET d == Head(descriptors)
             blockID == d.blockID
         IN  IF blockID \notin DOMAIN SECTION0_BLOCK_ENTRY_SIZES
             THEN ReadSection0(s, Tail(descriptors), section0Offset, c)
             ELSE IF blockID \in DOMAIN c.seg0
             THEN [c EXCEPT !.err = InvalidFmdl("Duplicate segment 0 block")]
             ELSE LET entrySize == SECTION0_BLOCK_ENTRY_SIZES[blockID]
                      block == ReadEntries(s, d.blockOffset + section0Offset,
                                           d.entryCount, entrySize)
                  IN  IF \E i \in DOMAIN block : Len(block[i]) # entrySize
                      THEN [c EXCEPT !.err = InvalidFmdl(
                               "Unexpected end of file reading section 0 block entry")]
                      ELSE ReadSection0(s, Tail(descriptors), section0Offset,
                               [c EXCEPT !.seg0 = DictSet(c.seg0, blockID, block)])

\* the block lengths are interpreted liberally
ClampLengthNoBlock3(blockID, length, remainingLength) ==
    IF length > remainingLength THEN remainingLength ELSE length

ClampLengthNever(blockID, length, remainingLength) == length

ClampLength(blockID, length, remainingLength) ==
    IF length > remainingLength \/ blockID = 3 THEN remainingLength ELSE length

RECURSIVE ReadSection1(_, _, _, _)
\* the loop over section1Descriptors
ReadSection1(s, descriptors, section1Offset, c) ==
    IF descriptors = <<>> THEN c
    ELSE LET d == Head(descriptors)
             blockID == d.blockID
             fileLength == Len(s)
             remainingLength == fileLength - (d.blockOffset + section1Offset)
             length == ClampLength(blockID, d.length, remainingLength)
             block == ReadAt(s, d.blockOffset + section1Offset, length)
         IN  IF blockID \in DOMAIN c.seg1
             THEN [c EXCEPT !.err = InvalidFmdl("Duplicate segment 1 block")]
             ELSE IF length < 0
             THEN [c EXCEPT !.err = Raise("ValueError", "negative count")]
             ELSE IF Len(block) # length
             THEN [c EXCEPT !.err = InvalidFmdl(
                      "Unexpected end of file reading section 1 block")]
             ELSE ReadSection1(s, Tail(descriptors), section1Offset,
                      [c EXCEPT !.seg1 = DictSet(c.seg1, blockID, block)])

\* FmdlContainer.readStream on container c: the container afterwards, with
\* the exception raised (if any) in err
readStream(s, c) ==
    LET header == ReadAt(s, 0, 56) IN
    IF Len(header) # 56
    THEN [c EXCEPT !.err = InvalidFmdl("Incomplete header")]
    ELSE
    LET h == UnpackHeader(header) IN
    IF h.magic # MAGIC
    THEN [c EXCEPT !.err = InvalidFmdl("Unexpected magic number")]
    ELSE
    LET c1 == [c EXCEPT !.version = h.version]
        raw0 == RawDescriptors(s, h.descriptorsOffset, h.section0BlockCount, 8)
        raw1 == RawDescriptors(s, h.descriptorsOffset + 8 * h.section0BlockCount,
                               h.section1BlockCount, 12)
    IN
    IF (\E i \in DOMAIN raw0 : Len(raw0[i]) # 8)
       \/ (\E i \in DOMAIN raw1 : Len(raw1[i]) # 12)
    THEN [c1 EXCEPT !.err = InvalidFmdl("Incomplete block descriptor")]
    ELSE
    LET section0Descriptors == [i \in DOMAIN raw0 |-> UnpackDescriptor0(raw0[i])]
        section1Descriptors == [i \in DOMAIN raw1 |-> UnpackDescriptor1(raw1[i])]
        c2 == ReadSection0(s, section0Descriptors, h.section0Offset, c1)
    IN
    IF c2.err # NoError THEN c2
    ELSE ReadSection1(s, section1Descriptors, h.section1Offset, c2)

\* a 64-bit bitmap with bit i set for every i in ids, as 8 little-endian bytes
RECURSIVE SumPow2(_)
SumPow2(S) ==
    IF S = {} THEN 0
    ELSE LET i == CHOOSE x \in S : TRUE IN 2 ^ i + SumPow2(S \ {i})

Bitmap(ids) ==
    [j \in 1..8 |-> SumPow2({i % 8 : i \in {x \in ids : x \div 8 = j - 1}})]

\* pad a block to a multiple of 16 bytes
Pad16(block) ==
    IF Len(block) % 16 # 0
    THEN block \o Zeros(16 - (Len(block) % 16))
    ELSE block

\* which keys of segment0Blocks the first loop of writeStream emits
EmittedSegment0Ids(seg0) == {i \in 0..63 : i \in DOMAIN seg0}

\* which keys of segment1Blocks the second loop of writeStream emits
EmittedSegment1Ids(seg1) == {i \in 0..63 : i \in DOMAIN seg1}

\* the bytes emitted for one segment-1 block
Section1BlockBytes(block) == block

RECURSIVE WriteSection0(_, _, _)
\* the first loop of writeStream, over the ids in ascending order
WriteSection0(seg0, ids, offset) ==
    IF ids = <<>>
    THEN [descriptors |-> <<>>, blocks |-> <<>>, offset |-> offset]
    ELSE LET i == Head(ids)
             entries == seg0[i]
             descriptor == PackUInt(i, 2) \o PackUInt(Len(entries), 2)
                               \o PackUInt(offset, 4)
             block == Pad16(Concat(entries))
             rest == WriteSection0(seg0, Tail(ids), offset + Len(block))
         IN  [descriptors |-> <<descriptor>> \o rest.descriptors,
              blocks |-> <<block>> \o rest.blocks,
              offset |-> rest.offset]

RECURSIVE WriteSection1(_, _, _)
\* the second loop of writeStream
WriteSection1(seg1, ids, offset) ==
    IF ids = <<>>
    THEN [descriptors |-> <<>>, blocks |-> <<>>, offset |-> offset]
    ELSE LET i == Head(ids)
             block == seg1[i]
             descriptor == PackUInt(i, 4) \o PackUInt(offset, 4)
                               \o PackUInt(Len(block), 4)
             emitted == Section1BlockBytes(block)
             rest == WriteSection1(seg1, Tail(ids), offset + Len(emitted))
         IN  [descriptors |-> <<descriptor>> \o rest.descriptors,
              blocks |-> <<emitted>> \o rest.blocks,
              offset |-> rest.offset]

\* FmdlContainer.writeStream: the bytes written to the stream
writeStream(c) ==
    LET ids0 == EmittedSegment0Ids(c.seg0)
        ids1 == EmittedSegment1Ids(c.seg1)
        w0 == WriteSection0(c.seg0, SortedSeq(ids0), 0)
        section0Blocks == IF w0.offset % 16 # 0
                          THEN w0.blocks \o <<Zeros(16 - (w0.offset % 16))>>
                          ELSE w0.blocks
        section0Length == IF w0.offset % 16 # 0
                          THEN w0.offset + 16 - (w0.offset % 16)
                          ELSE w0.offset
        w1 == WriteSection1(c.seg1, SortedSeq(ids1), 0)
        section1Length == w1.offset
        descriptors == Pad16(Concat(w0.descriptors \o w1.descriptors))
        headerSize == 64
        section0Offset == headerSize + Len(descriptors)
        section1Offset == section0Offset + section0Length
        header == MAGIC \o c.version \o PackUInt(headerSize, 8)
                    \o Bitmap(ids0) \o Bitmap(ids1)
                    \o PackUInt(Len(w0.descriptors), 4)
                    \o PackUInt(Len(w1.descriptors), 4)
                    \o PackUInt(section0Offset, 4) \o PackUInt(section0Length, 4)
                    \o PackUInt(section1Offset, 4) \o PackUInt(section1Length, 4)
                    \o PackUInt(0, 8)
    IN  header \o descriptors \o Concat(section0Blocks) \o Concat(w1.blocks)


(***************************************************************************)
(* The container as the program drives it                                  *)
(***************************************************************************)
\* the container under construction, as one record
Built ==
    [version |-> VERSION_2_03, seg0 |-> segment0Blocks,
     seg1 |-> segment1Blocks, err |-> NoError]

\* FmdlFile.newSegment0BlockDescriptorID: the dict afterwards
newSegment0BlockDescriptorID(seg0, blockID) ==
    IF blockID \notin DOMAIN seg0 THEN DictSet(seg0, blockID, <<>>) ELSE seg0

\* FmdlFile.addSegment0Block: the dict afterwards (the ID returned is the
\* length of the block before the append)
addSegment0Block(seg0, blockID, block) ==
    LET d == newSegment0BlockDescriptorID(seg0, blockID)
    IN  DictSet(d, blockID, Append(d[blockID], block))

\* the pattern of addString / addMaterialParameterValues on a segment-1 block
appendSegment1(seg1, blockID, data) ==
    LET d == IF blockID \notin DOMAIN seg1 THEN DictSet(seg1, blockID, <<>>) ELSE seg1
    IN  DictSet(d, blockID, d[blockID] \o data)

RECURSIVE SumLen(_)
SumLen(list) == IF list = <<>> THEN 0 ELSE Len(Head(list)) + SumLen(Tail(list))

\* bounds of the container model
MaxEntries == 2
MaxSeg1Bytes == 21
MaxCrafted == 2

Seg0IdsUsed == {11, 12, 15}
Seg1IdsUsed == {0, 2, 3}
FillBytes == {1, 2}
ChunkLengths == {5, 16}

\* the total length of the segment-1 blocks
Seg1Bytes(seg1) ==
    SumLen([i \in 1..Len(SortedSeq(DOMAIN seg1)) |-> seg1[SortedSeq(DOMAIN seg1)[i]]])

\* the n bytes appended to a segment-1 block of length have: every byte of the
\* container's segment-1 data differs from its neighbours
Chunk(blockID, have, n) == [i \in 1..n |-> (64 * blockID + have + i) % 256]

\* the size of the entries added under an id: the table's, and 4 bytes for an
\* id that is not in the table
EntrySizeUsed(blockID) ==
    IF blockID \in DOMAIN SECTION0_BLOCK_ENTRY_SIZES
    THEN SECTION0_BLOCK_ENTRY_SIZES[blockID] ELSE 4

EntryCount(seg0) == SumLen([i \in 1..Len(SortedSeq(DOMAIN seg0)) |->
                              seg0[SortedSeq(DOMAIN seg0)[i]]])

\* a crafted file: a header as the writer lays it out, no segment-0 block,
\* the given segment-1 descriptors (blockID, blockOffset, length) and a payload
CraftedFile(descs, payload) ==
    LET descriptors == Pad16(Concat(
            [i \in DOMAIN descs |-> PackUInt(descs[i][1], 4)
                 \o PackUInt(descs[i][2], 4) \o PackUInt(descs[i][3], 4)]))
        section0Offset == 64 + Len(descriptors)
    IN  MAGIC \o VERSION_2_03 \o PackUInt(64, 8)
          \o Bitmap({}) \o Bitmap({descs[i][1] : i \in DOMAIN descs})
          \o PackUInt(0, 4) \o PackUInt(Len(descs), 4)
          \o PackUInt(section0Offset, 4) \o PackUInt(0, 4)
          \o PackUInt(section0Offset, 4) \o PackUInt(Len(payload), 4)
          \o PackUInt(0, 8) \o descriptors \o payload

CraftedDescriptors == {2, 3} \X {0, 4, 12} \X {0, 4, 8, 100}
CraftedPayloads == {<<>>, <<10, 11, 12, 13, 14, 15, 16, 17>>}
CraftedDescriptorLists ==
    UNION {[1..n -> CraftedDescriptors] : n \in 1..MaxCrafted}

\* a container before anything was stored in it, and no stream
ContainerIdle ==
    /\ segment0Blocks = <<>>
    /\ segment1Blocks = <<>>
    /\ stream = <<>>
    /\ loaded = NewContainer

\* FmdlFile.__init__
ModelIdle ==
    /\ bones = <<>>
    /\ materialInstances = <<>>
    /\ meshes = <<>>
    /\ meshGroups = <<>>
    /\ raised = NoError
    /\ firstRead = <<>>

\* no function is being applied
CallIdle ==
    /\ args = <<>>
    /\ ret = <<>>

ContainerInit ==
    /\ ContainerIdle
    /\ ModelIdle
    /\ CallIdle
    /\ phase = "new"

AddSegment0Block(blockID, fill) ==
    /\ phase \in {"new", "build"}
    /\ EntryCount(segment0Blocks) < MaxEntries
    /\ segment0Blocks' = addSegment0Block(segment0Blocks, blockID,
                             [i \in 1..EntrySizeUsed(blockID) |-> fill])
    /\ phase' = "build"
    /\ UNCHANGED <<segment1Blocks, stream, loaded, modelVars, callVars>>

AppendSegment1Block(blockID, n) ==
    /\ phase \in {"new", "build"}
    /\ Seg1Bytes(segment1Blocks) + n <= MaxSeg1Bytes
    /\ segment1Blocks' = appendSegment1(segment1Blocks, blockID,
           Chunk(blockID,
                 IF blockID \in DOMAIN segment1Blocks
                 THEN Len(segment1Blocks[blockID]) ELSE 0, n))
    /\ phase' = "build"
    /\ UNCHANGED <<segment0Blocks, stream, loaded, modelVars, callVars>>

\* FmdlContainer.writeStream on the container built
WriteStream ==
    /\ phase \in {"new", "build"}
    /\ stream' = writeStream(Built)
    /\ phase' = "written"
    /\ UNCHANGED <<segment0Blocks, segment1Blocks, loaded, modelVars, callVars>>

\* a file that some other producer wrote
CraftStream(descs, payload) ==
    /\ phase = "new"
    /\ stream' = CraftedFile(descs, payload)
    /\ phase' = "crafted"
    /\ UNCHANGED <<segment0Blocks, segment1Blocks, loaded, modelVars, callVars>>

\* FmdlContainer.readStream of the stream into a fresh container
ReadStream ==
    /\ phase \in {"written", "crafted"}
    /\ loaded' = readStream(stream, NewContainer)
    /\ phase' = IF phase = "written" THEN "reread" ELSE "read"
    /\ UNCHANGED <<segment0Blocks, segment1Blocks, stream, modelVars, callVars>>

ContainerNext ==
    \/ \E blockID \in Seg0IdsUsed, fill \in FillBytes : AddSegment0Block(blockID, fill)
    \/ \E blockID \in Seg1IdsUsed, n \in ChunkLengths :
           AppendSegment1Block(blockID, n)
    \/ WriteStream
    \/ \E descs \in CraftedDescriptorLists, payload \in CraftedPayloads :
           CraftStream(descs, payload)
    \/ ReadStream

ContainerSpec == ContainerInit /\ [][ContainerNext]_vars


(***************************************************************************)
(* Properties of the container layer                                       *)
(***************************************************************************)
\* the descriptors of a well-framed stream, as readStream unpacks them
StreamDescriptors0(s) ==
    LET h == UnpackHeader(ReadAt(s, 0, 56))
        raw == RawDescriptors(s, h.descriptorsOffset, h.section0BlockCount, 8)
    IN  [i \in DOMAIN raw |-> UnpackDescriptor0(raw[i])]

StreamDescriptors1(s) ==
    LET h == UnpackHeader(ReadAt(s, 0, 56))
        raw == RawDescriptors(s, h.descriptorsOffset + 8 * h.section0BlockCount,
                              h.section1BlockCount, 12)
    IN  [i \in DOMAIN raw |-> UnpackDescriptor1(raw[i])]

StreamSection1Offset(s) == UnpackHeader(ReadAt(s, 0, 56)).section1Offset

\* C8 (as claimed): in a written stream every block descriptor's offset, of
\* segment 0 and of segment 1, is a multiple of 16.
C8_AllOffsetsAligned ==
    phase = "written" =>
        /\ \A i \in DOMAIN StreamDescriptors0(stream) :
               StreamDescriptors0(stream)[i].blockOffset % 16 = 0
        /\ \A i \in DOMAIN StreamDescriptors1(stream) :
               StreamDescriptors1(stream)[i].blockOffset % 16 = 0

\* C9 (as claimed): a written stream carries a segment-0 descriptor only for
\* block-ids of the record-size table.
C9_OnlyTableIdsWritten ==
    phase = "written" =>
        \A i \in DOMAIN StreamDescriptors0(stream) :
            StreamDescriptors0(stream)[i].blockID \in DOMAIN SECTION0_BLOCK_ENTRY_SIZES

\* remaining = fileLength - (section1Offset + blockOffset) of a descriptor
Remaining(s, d) == Len(s) - (StreamSection1Offset(s) + d.blockOffset)

\* C10: after a successful readStream every segment-1 descriptor's block is
\* stored with exactly the declared length when its id is not 3 and the
\* declared length does not exceed remaining, and with exactly the remaining
\* bytes of the file otherwise; the read never fails as truncated in a
\* segment-1 block, and succeeds whenever the ids are distinct and no block
\* starts beyond the end of the file, whatever the declared lengths.
C10_Section1Lengths ==
    phase \in {"read", "reread"} =>
        LET ds == StreamDescriptors1(stream) IN
        /\ loaded.err = NoError =>
              \A i \in DOMAIN ds :
                 LET d == ds[i]
                     remaining == Remaining(stream, d)
                     expected == IF d.blockID # 3 /\ d.length <= remaining
                                 THEN d.length ELSE remaining
                 IN  /\ d.blockID \in DOMAIN loaded.seg1
                     /\ loaded.seg1[d.blockID] =
                           ReadAt(stream, StreamSection1Offset(stream) + d.blockOffset,
                                  expected)
                     /\ Len(loaded.seg1[d.blockID]) = expected
        /\ loaded.err.msg # "Unexpected end of file reading section 1 block"
        /\ ( /\ \A i, j \in DOMAIN ds : ds[i].blockID = ds[j].blockID => i = j
             /\ \A i \in DOMAIN ds : Remaining(stream, ds[i]) >= 0 )
           => loaded.err = NoError

\* C10 witness: a block-3 descriptor whose declared length exceeds the length
\* of the whole file has been read successfully, clamped to what remains.
C10_Witness ==
    /\ phase = "read"
    /\ loaded.err = NoError
    /\ \E i \in DOMAIN StreamDescriptors1(stream) :
          LET d == StreamDescriptors1(stream)[i] IN
          /\ d.blockID = 3
          /\ d.length > Len(stream)
          /\ Len(loaded.seg1[3]) = Remaining(stream, d)
          /\ Len(loaded.seg1[3]) > 0


(***************************************************************************)
(* FmdlFile, reading: from a container to the semantic model               *)
(*                                                                         *)
(* A function that may raise returns [err, val]: the exception raised, or  *)
(* NoError and the value returned.  A reference to another entity (a bone, *)
(* a mesh, a parent) is the entity's 0-based position in its list, as in   *)
(* the file.  An optional value is None or Some(x).  An object whose        *)
(* identity the code compares carries its identity in the field oid.       *)
(***************************************************************************)
None == <<>>
Some(x) == <<x>>
The(o) == o[1]
Ok(v) == [err |-> NoError, val |-> v]
Fail(e) == [err |-> e, val |-> <<>>]

\* a loop whose iterations do not depend on each other, each giving [err, val]:
\* the exception of the first iteration that raises, or the list of values
Collect(rs) ==
    IF \E i \in DOMAIN rs : rs[i].err # NoError
    THEN Fail(rs[CHOOSE i \in DOMAIN rs :
                     /\ rs[i].err # NoError
                     /\ \A j \in DOMAIN rs : j < i => rs[j].err = NoError].err)
    ELSE Ok([i \in DOMAIN rs |-> rs[i].val])

\* list[ID] for a 0-based ID
At(list, ID) == list[ID + 1]

\* a str is the sequence of its code points; this marks undecodable bytes
Undecodable == -1

IsContinuation(b, i) == i <= Len(b) /\ b[i] >= 128 /\ b[i] <= 191

RECURSIVE Utf8Decode(_, _)
\* str(bytes, 'utf-8') from position i on: the code points, or Undecodable
\* in place of the rest where the bytes are not UTF-8
Utf8Decode(b, i) ==
    IF i > Len(b) THEN <<>>
    ELSE LET c == b[i] IN
         IF c < 128 THEN <<c>> \o Utf8Decode(b, i + 1)
         ELSE IF c >= 194 /\ c <= 223 /\ IsContinuation(b, i + 1)
         THEN <<(c - 192) * 64 + (b[i + 1] - 128)>> \o Utf8Decode(b, i + 2)
         ELSE IF /\ c >= 224 /\ c <= 239
                 /\ IsContinuation(b, i + 1) /\ IsContinuation(b, i + 2)
                 /\ (c = 224 => b[i + 1] >= 160)
                 /\ (c = 237 => b[i + 1] <= 159)
         THEN <<(c - 224) * 4096 + (b[i + 1] - 128) * 64 + (b[i + 2] - 128)>>
                  \o Utf8Decode(b, i + 3)
         ELSE IF /\ c >= 240 /\ c <= 244
                 /\ IsContinuation(b, i + 1) /\ IsContinuation(b, i + 2)
                 /\ IsContinuation(b, i + 3)
                 /\ (c = 240 => b[i + 1] >= 144)
                 /\ (c = 244 => b[i + 1] <= 143)
         THEN <<(c - 240) * 262144 + (b[i + 1] - 128) * 4096
                    + (b[i + 2] - 128) * 64 + (b[i + 3] - 128)>>
                  \o Utf8Decode(b, i + 4)
         ELSE <<Undecodable>>

\* one record of block 12
ParseString(fmdl, definition) ==
    LET blockID == UnpackUInt(definition, 0, 2)
        length == UnpackUInt(definition, 2, 2)
        offset == UnpackUInt(definition, 4, 4)
    IN  IF blockID \notin DOMAIN fmdl.seg1
        THEN Fail(InvalidFmdl("Invalid block referenced by string"))
        ELSE LET block == fmdl.seg1[blockID] IN
             IF offset + length > Len(block)
             THEN Fail(InvalidFmdl("Invalid block location referenced by string"))
             ELSE LET string == Utf8Decode(SubSeq(block, offset + 1, offset + length), 1)
                  IN  IF Undecodable \in Range(string)
                      THEN Fail(InvalidFmdl("Invalid unicode in string"))
                      ELSE Ok(string)

parseStrings(fmdl) ==
    IF 12 \notin DOMAIN fmdl.seg0 THEN Ok(<<>>)
    ELSE Collect([i \in DOMAIN fmdl.seg0[12] |-> ParseString(fmdl, fmdl.seg0[12][i])])

\* BoundingBox(min, max) is called with the first four floats of the record
\* as min and the last four as max; a Vector4 is kept as its 16 bytes
parseBoundingBoxes(fmdl) ==
    IF 13 \notin DOMAIN fmdl.seg0 THEN Ok(<<>>)
    ELSE Ok([i \in DOMAIN fmdl.seg0[13] |->
               [oid |-> i - 1,
                min |-> SubSeq(fmdl.seg0[13][i], 1, 16),
                max |-> SubSeq(fmdl.seg0[13][i], 17, 32)]])

\* the first loop of parseBones, for one record of block 0
ParseBone(definition, strings, boundingBoxes) ==
    LET nameStringID == UnpackUInt(definition, 0, 2)
        parentBoneID == UnpackInt16(definition, 2)
        boundingBoxID == UnpackUInt(definition, 4, 2)
    IN  IF ~(nameStringID < Len(strings))
        THEN Fail(InvalidFmdl("Invalid string referenced by bone"))
        ELSE IF ~(boundingBoxID < Len(boundingBoxes))
        THEN Fail(InvalidFmdl("Invalid bounding box referenced by bone"))
        ELSE Ok([name |-> At(strings, nameStringID),
                 boundingBox |-> At(boundingBoxes, boundingBoxID),
                 localPosition |-> SubSeq(definition, 17, 32),
                 globalPosition |-> SubSeq(definition, 33, 48),
                 parentID |-> parentBoneID])

\* the second loop of parseBones and of parseMeshGroups: the parent of every
\* node (None without one), or the exception for the first parent ID that is
\* not in the list; parentIDs is the list of the signed parent IDs
ResolveParents(parentIDs, message) ==
    Collect([i \in DOMAIN parentIDs |->
        IF parentIDs[i] >= 0
        THEN IF ~(parentIDs[i] < Len(parentIDs))
             THEN Fail(InvalidFmdl(message))
             ELSE Ok(Some(parentIDs[i]))
        ELSE Ok(None)])

\* the children lists the second loop builds: node.children, in list order
Children(parents, ID) ==
    SortedSeq({j \in 0..(Len(parents) - 1) : At(parents, j) = Some(ID)})

\* The third loop ("Check for parent loops"), one step at a time.  A state is
\* [i, node, seen, status]: the loop variable's position i, the node the
\* while loop stands on, the list seen, and "walking", "raised" or "done".
LoopCheckStart(parents) ==
    IF Len(parents) = 0
    THEN [i |-> 0, node |-> 0, seen |-> {}, status |-> "done"]
    ELSE [i |-> 0, node |-> 0, seen |-> {}, status |-> "walking"]

\* a parent loop check that stops walking at a node it has seen, not raising
LoopCheckStepSilent(parents, st) ==
    IF At(parents, st.node) = None \/ st.node \in st.seen
    THEN IF st.i + 1 < Len(parents)
         THEN [i |-> st.i + 1, node |-> st.i + 1, seen |-> {}, status |-> "walking"]
         ELSE [st EXCEPT !.status = "done"]
    ELSE [st EXCEPT !.seen = st.seen \cup {st.node}, !.node = The(At(parents, st.node))]

\* one evaluation of the while condition and, if it holds, of the loop body
LoopCheckStep(parents, st) ==
    IF At(parents, st.node) = None
    THEN \* the while loop ends: the for loop goes on to the next node
         IF st.i + 1 < Len(parents)
         THEN [i |-> st.i + 1, node |-> st.i + 1, seen |-> {}, status |-> "walking"]
         ELSE [st EXCEPT !.status = "done"]
    ELSE IF st.node \in st.seen
    THEN [st EXCEPT !.status = "raised"]
    ELSE [st EXCEPT !.seen = st.seen \cup {st.node}, !.node = The(At(parents, st.node))]

RECURSIVE LoopCheckRun(_, _)
LoopCheckRun(parents, st) ==
    IF st.status # "walking" THEN st
    ELSE LoopCheckRun(parents, LoopCheckStep(parents, st))

\* whether the third loop raises
LoopCheckRaises(parents) ==
    LoopCheckRun(parents, LoopCheckStart(parents)).status = "raised"

parseBones(fmdl, strings, boundingBoxes) ==
    IF 0 \notin DOMAIN fmdl.seg0 THEN Ok(<<>>)
    ELSE
    LET first == Collect([i \in DOMAIN fmdl.seg0[0] |->
                     ParseBone(fmdl.seg0[0][i], strings, boundingBoxes)])
    IN
    IF first.err # NoError THEN first
    ELSE
    LET resolved == ResolveParents([i \in DOMAIN first.val |-> first.val[i].parentID],
                                   "Invalid bone parent ID referenced by bone")
    IN
    IF resolved.err # NoError THEN resolved
    ELSE IF LoopCheckRaises(resolved.val)
    THEN Fail(InvalidFmdl("Invalid bone parent loop detected for bone"))
    ELSE Ok([i \in DOMAIN first.val |->
               [name |-> first.val[i].name,
                boundingBox |-> first.val[i].boundingBox,
                localPosition |-> first.val[i].localPosition,
                globalPosition |-> first.val[i].globalPosition,
                parent |-> resolved.val[i],
                children |-> Children(resolved.val, i - 1)]])


\* pack('< H H h h', nameStringID, 1 if not visible else 0, parentID, -1)
MeshGroupRecord(nameStringID, visible, parentMeshGroupID) ==
    PackUInt(nameStringID, 2) \o PackUInt(IF visible THEN 0 ELSE 1, 2)
        \o PackInt16(parentMeshGroupID) \o PackInt16(-1)

\* pack('< 4x HHHH 4x H 14x', meshGroupID, meshCount, firstMeshID, boundingBoxID, 0)
MeshGroupAssignmentRecord(meshGroupID, firstMeshID, meshCount, boundingBoxID) ==
    Zeros(4) \o PackUInt(meshGroupID, 2) \o PackUInt(meshCount, 2)
        \o PackUInt(firstMeshID, 2) \o PackUInt(boundingBoxID, 2)
        \o Zeros(4) \o PackUInt(0, 2) \o Zeros(14)

\* unpack('< 4x HHHH 4x H 14x') of every record of block 2
parseMeshGroupAssignments(fmdl) ==
    IF 2 \notin DOMAIN fmdl.seg0 THEN <<>>
    ELSE [i \in DOMAIN fmdl.seg0[2] |->
            [meshGroupID |-> UnpackUInt(fmdl.seg0[2][i], 4, 2),
             meshCount |-> UnpackUInt(fmdl.seg0[2][i], 6, 2),
             firstMeshIndex |-> UnpackUInt(fmdl.seg0[2][i], 8, 2),
             boundingBoxID |-> UnpackUInt(fmdl.seg0[2][i], 10, 2)]]

\* the first loop of parseMeshGroups, for one record of block 1
ParseMeshGroup(definition, strings) ==
    LET nameStringID == UnpackUInt(definition, 0, 2)
        invisible == UnpackUInt(definition, 2, 2)
        parentID == UnpackInt16(definition, 4)
    IN  IF ~(nameStringID < Len(strings))
        THEN Fail(InvalidFmdl("Invalid string referenced by mesh group"))
        ELSE Ok([name |-> At(strings, nameStringID),
                 visible |-> (invisible = 0),
                 parentID |-> parentID])

\* a range check that never finds a mesh assigned already
RangeTakenNever(assignments, firstMeshIndex, meshCount) == FALSE

\* whether "assignments[i] != None" holds for an i of the range
RangeTaken(assignments, firstMeshIndex, meshCount) ==
    \E i \in firstMeshIndex..(firstMeshIndex + meshCount - 1) :
        At(assignments, i) # None

\* "None in assignments"
HasUnassigned(assignments) ==
    \E i \in DOMAIN assignments : assignments[i] = None

RECURSIVE AssignmentLoop(_, _, _, _, _)
\* the loop over meshGroupAssignments; st is [assignments, boundingBox, err]:
\* the list assignments, the boundingBox field of every mesh group, and the
\* exception raised
AssignmentLoop(records, st, meshGroupCount, meshCount, boundingBoxes) ==
    IF records = <<>> THEN st
    ELSE
    LET a == Head(records) IN
    IF ~(a.meshGroupID < meshGroupCount)
    THEN [st EXCEPT !.err = InvalidFmdl(
             "Invalid mesh group ID referenced by mesh group assignment")]
    ELSE IF ~(a.firstMeshIndex + a.meshCount <= meshCount)
    THEN [st EXCEPT !.err = InvalidFmdl(
             "Invalid mesh ID referenced by mesh group assignment")]
    ELSE IF ~(a.boundingBoxID < Len(boundingBoxes))
    THEN [st EXCEPT !.err = InvalidFmdl(
             "Invalid bounding box ID referenced by mesh group assignment")]
    ELSE IF RangeTaken(st.assignments, a.firstMeshIndex, a.meshCount)
    THEN [st EXCEPT !.err = InvalidFmdl(
             "Invalid double mesh group assignment: mesh already assigned")]
    ELSE IF /\ At(st.boundingBox, a.meshGroupID) # None
            /\ At(st.boundingBox, a.meshGroupID) # Some(At(boundingBoxes, a.boundingBoxID))
    THEN [st EXCEPT !.err = InvalidFmdl(
             "Invalid double bounding box assignment for mesh group")]
    ELSE AssignmentLoop(Tail(records),
             [st EXCEPT
                !.assignments = [i \in DOMAIN st.assignments |->
                    IF i - 1 >= a.firstMeshIndex /\ i - 1 < a.firstMeshIndex + a.meshCount
                    THEN Some(a.meshGroupID) ELSE st.assignments[i]],
                !.boundingBox[a.meshGroupID + 1] = Some(At(boundingBoxes, a.boundingBoxID))],
             meshGroupCount, meshCount, boundingBoxes)

\* parseMeshGroups; meshCount is len(meshes), and a mesh group's meshes are
\* kept as the positions of the meshes in that list
parseMeshGroups(fmdl, strings, boundingBoxes, meshCount) ==
    LET block == IF 1 \in DOMAIN fmdl.seg0 THEN fmdl.seg0[1] ELSE <<>>
        first == Collect([i \in DOMAIN block |-> ParseMeshGroup(block[i], strings)])
    IN
    IF first.err # NoError THEN first
    ELSE
    LET resolved == ResolveParents([i \in DOMAIN first.val |-> first.val[i].parentID],
                        "Invalid mesh group parent ID referenced by mesh group")
    IN
    IF resolved.err # NoError THEN resolved
    ELSE IF LoopCheckRaises(resolved.val)
    THEN Fail(InvalidFmdl("Invalid mesh group parent loop detected for mesh group"))
    ELSE
    LET st == AssignmentLoop(parseMeshGroupAssignments(fmdl),
                  [assignments |-> [i \in 1..meshCount |-> None],
                   boundingBox |-> [i \in DOMAIN first.val |-> None],
                   err |-> NoError],
                  Len(first.val), meshCount, boundingBoxes)
    IN
    IF st.err # NoError THEN Fail(st.err)
    ELSE IF HasUnassigned(st.assignments)
    THEN Fail(InvalidFmdl("Mesh not assigned to mesh group"))
    ELSE Ok([i \in DOMAIN first.val |->
               [name |-> first.val[i].name,
                visible |-> first.val[i].visible,
                parent |-> resolved.val[i],
                children |-> Children(resolved.val, i - 1),
                meshes |-> SortedSeq({m \in 0..(meshCount - 1) :
                                         At(st.assignments, m) = Some(i - 1)}),
                boundingBox |-> st.boundingBox[i]]])

\* pack('< H H', shaderStringID, techniqueStringID)
MaterialRecord(shaderStringID, techniqueStringID) ==
    PackUInt(shaderStringID, 2) \o PackUInt(techniqueStringID, 2)

\* pack('< H H', filenameStringID, directoryStringID)
TextureRecord(filenameStringID, directoryStringID) ==
    PackUInt(filenameStringID, 2) \o PackUInt(directoryStringID, 2)

\* pack('< H H', parameterStringID, valueID)
TextureMaterialParameterAssignmentRecord(parameterStringID, valueID) ==
    PackUInt(parameterStringID, 2) \o PackUInt(valueID, 2)

\* pack('< H H H BB H H I', nameStringID, 0, materialID, textureCount,
\*      materialParameterCount, firstTextureID, firstMaterialParameterID, 0)
MaterialInstanceRecord(nameStringID, materialID, textureCount, materialParameterCount, firstTextureAssignmentID, firstMaterialParameterAssignmentID) ==
    PackUInt(nameStringID, 2) \o PackUInt(0, 2) \o PackUInt(materialID, 2)
        \o PackUInt(textureCount, 1) \o PackUInt(materialParameterCount, 1)
        \o PackUInt(firstTextureAssignmentID, 2)
        \o PackUInt(firstMaterialParameterAssignmentID, 2) \o PackUInt(0, 4)

\* parseMaterials: (technique, shader) of every record of block 8
parseMaterials(fmdl, strings) ==
    IF 8 \notin DOMAIN fmdl.seg0 THEN Ok(<<>>)
    ELSE Collect([i \in DOMAIN fmdl.seg0[8] |->
        LET shaderStringID == UnpackUInt(fmdl.seg0[8][i], 0, 2)
            techniqueStringID == UnpackUInt(fmdl.seg0[8][i], 2, 2)
        IN  IF ~(shaderStringID < Len(strings))
            THEN Fail(InvalidFmdl("Invalid string ID referenced by material"))
            ELSE IF ~(techniqueStringID < Len(strings))
            THEN Fail(InvalidFmdl("Invalid string ID referenced by material"))
            ELSE Ok([technique |-> At(strings, techniqueStringID),
                     shader |-> At(strings, shaderStringID)])])

\* what "raise InvalidFdml(...)" does: the name InvalidFdml is not defined
RaiseInvalidFdml == Raise("NameError", "name 'InvalidFdml' is not defined")

\* parseTextures: the texture of every record of block 6
parseTextures(fmdl, strings) ==
    IF 6 \notin DOMAIN fmdl.seg0 THEN Ok(<<>>)
    ELSE Collect([i \in DOMAIN fmdl.seg0[6] |->
        LET filenameStringID == UnpackUInt(fmdl.seg0[6][i], 0, 2)
            directoryStringID == UnpackUInt(fmdl.seg0[6][i], 2, 2)
        IN  IF ~(filenameStringID < Len(strings))
            THEN Fail(RaiseInvalidFdml)
            ELSE IF ~(directoryStringID < Len(strings))
            THEN Fail(RaiseInvalidFdml)
            ELSE Ok([filename |-> At(strings, filenameStringID),
                     directory |-> At(strings, directoryStringID)])])

\* parseTextureMaterialParameterAssignments: (name, referenceID) of block 7
parseTextureMaterialParameterAssignments(fmdl, strings) ==
    IF 7 \notin DOMAIN fmdl.seg0 THEN Ok(<<>>)
    ELSE Collect([i \in DOMAIN fmdl.seg0[7] |->
        LET parameterStringID == UnpackUInt(fmdl.seg0[7][i], 0, 2)
            referenceID == UnpackUInt(fmdl.seg0[7][i], 2, 2)
        IN  IF ~(parameterStringID < Len(strings))
            THEN Fail(InvalidFmdl(
                "Invalid string ID referenced by texture / material parameter assignment"))
            ELSE Ok([name |-> At(strings, parameterStringID),
                     referenceID |-> referenceID])])

\* parseMaterialParameters: the 16-byte groups (four floats) of segment-1 block 0
parseMaterialParameters(fmdl) ==
    IF 0 \notin DOMAIN fmdl.seg1 THEN <<>>
    ELSE [index \in 1..(Len(fmdl.seg1[0]) \div 16) |->
             SubSeq(fmdl.seg1[0], (index - 1) * 16 + 1, index * 16)]

\* a str compared with a (name, value) tuple: never equal
StrEqualsTuple(name, pair) == FALSE

\* "name in list" for a list of (name, value) tuples
NameInList(name, list) ==
    \E k \in DOMAIN list : StrEqualsTuple(name, list[k])

RECURSIVE InstanceAssignments(_, _, _, _, _, _, _)
\* the texture loop and the parameter loop of parseMaterialInstances: the
\* (name, target) pairs of the assignments i .. last - 1, acc being the list so far
InstanceAssignments(i, last, assignments, targets, acc, invalidTarget, duplicate) ==
    IF i >= last THEN Ok(acc)
    ELSE IF ~(i < Len(assignments))
    THEN Fail(InvalidFmdl(
        "Invalid texture / material parameter assignment referenced by material instance"))
    ELSE IF ~(At(assignments, i).referenceID < Len(targets))
    THEN Fail(InvalidFmdl(invalidTarget))
    ELSE IF NameInList(At(assignments, i).name, acc)
    THEN Fail(InvalidFmdl(duplicate))
    ELSE InstanceAssignments(i + 1, last, assignments, targets,
             Append(acc, <<At(assignments, i).name,
                           At(targets, At(assignments, i).referenceID)>>),
             invalidTarget, duplicate)

\* the loop body of parseMaterialInstances, for one record of block 4
ParseMaterialInstance(definition, strings, materials, textures, materialParameters, assignments) ==
    LET nameStringID == UnpackUInt(definition, 0, 2)
        materialID == UnpackUInt(definition, 4, 2)
        textureCount == UnpackUInt(definition, 6, 1)
        materialParameterCount == UnpackUInt(definition, 7, 1)
        firstTextureID == UnpackUInt(definition, 8, 2)
        firstMaterialParameterID == UnpackUInt(definition, 10, 2)
    IN
    IF ~(nameStringID < Len(strings))
    THEN Fail(InvalidFmdl("Invalid string ID referenced by material instance"))
    ELSE IF ~(materialID < Len(materials))
    THEN Fail(InvalidFmdl("Invalid material ID referenced by material instance"))
    ELSE
    LET instanceTextures ==
            InstanceAssignments(firstTextureID, firstTextureID + textureCount,
                assignments, textures, <<>>,
                "Invalid texture referenced by texture assignment",
                "Duplicate texture name used by material instance")
    IN
    IF instanceTextures.err # NoError THEN instanceTextures
    ELSE
    LET instanceMaterialParameters ==
            InstanceAssignments(firstMaterialParameterID,
                firstMaterialParameterID + materialParameterCount,
                assignments, materialParameters, <<>>,
                "Invalid material parameter referenced by material parameter assignment",
                "Duplicate material parameters used by material instance")
    IN
    IF instanceMaterialParameters.err # NoError THEN instanceMaterialParameters
    ELSE Ok([name |-> At(strings, nameStringID),
             technique |-> At(materials, materialID).technique,
             shader |-> At(materials, materialID).shader,
             textures |-> instanceTextures.val,
             parameters |-> instanceMaterialParameters.val])

parseMaterialInstances(fmdl, strings) ==
    IF 4 \notin DOMAIN fmdl.seg0 THEN Ok(<<>>)
    ELSE
    LET materials == parseMaterials(fmdl, strings) IN
    IF materials.err # NoError THEN materials
    ELSE
    LET textures == parseTextures(fmdl, strings) IN
    IF textures.err # NoError THEN textures
    ELSE
    LET materialParameters == parseMaterialParameters(fmdl)
        assignments == parseTextureMaterialParameterAssignments(fmdl, strings)
    IN
    IF assignments.err # NoError THEN assignments
    ELSE Collect([i \in DOMAIN fmdl.seg0[4] |->
             ParseMaterialInstance(fmdl.seg0[4][i], strings, materials.val,
                 textures.val, materialParameters, assignments.val)])

(***************************************************************************)
(* The values of vertex data.  A float read with 'f' is kept as its four   *)
(* bytes: unpack and pack of a 32-bit float give the bytes back.  A float  *)
(* that parseFloat16 returns is [kind, neg, num, exp]: for kind "finite"   *)
(* the value (-1)^neg * num * 2^exp with num odd or 0, else "inf" or       *)
(* "nan".  A float x / 255.0 is the ratio [num |-> x, den |-> 255].        *)
(***************************************************************************)
RECURSIVE BitLength(_)
\* the number of binary digits of a natural number
BitLength(n) == IF n = 0 THEN 0 ELSE 1 + BitLength(n \div 2)

RECURSIVE Finite(_, _, _)
\* the float (-1)^neg * num * 2^exp
Finite(neg, num, exp) ==
    IF num = 0 THEN [kind |-> "finite", neg |-> neg, num |-> 0, exp |-> 0]
    ELSE IF num % 2 = 0 THEN Finite(neg, num \div 2, exp + 1)
    ELSE [kind |-> "finite", neg |-> neg, num |-> num, exp |-> exp]

Infinity(neg) == [kind |-> "inf", neg |-> neg, num |-> 0, exp |-> 0]
NaN(neg) == [kind |-> "nan", neg |-> neg, num |-> 0, exp |-> 0]

\* int(num * 2^k) for a natural number num
TruncScaled(num, k) == IF k >= 0 THEN num * 2^k ELSE num \div 2^(0 - k)

\* parseFloat16 with the hidden bit added to a subnormal as well
parseFloat16NoSubnormal(int16) ==
    IF (int16 \div 1024) % 32 = 31
    THEN IF int16 % 1024 = 0 THEN Infinity(((int16 \div 32768) % 2) # 0)
         ELSE NaN(((int16 \div 32768) % 2) # 0)
    ELSE Finite(((int16 \div 32768) % 2) # 0, (int16 % 1024) + 1024,
                Max((int16 \div 1024) % 32, 1) - 10 - 15)

parseFloat16(int16) ==
    LET sign == ((int16 \div 32768) % 2) # 0
        biasedExponent == (int16 \div 1024) % 32
        mantissa == int16 % 1024
    IN  IF biasedExponent = 31
        THEN IF mantissa = 0 THEN Infinity(sign) ELSE NaN(sign)
        ELSE IF biasedExponent = 0
        THEN Finite(sign, mantissa, 1 - 10 - 15)
        ELSE Finite(sign, mantissa + 1024, biasedExponent - 10 - 15)

\* encodeFloat16 taking a float below the smallest normalized half for zero
encodeFloat16FlushingSubnormals(floatValue) ==
    LET sign == IF \/ floatValue.kind = "inf" /\ floatValue.neg
                   \/ floatValue.kind = "finite" /\ floatValue.neg /\ floatValue.num # 0
                THEN 1 ELSE 0
        length == BitLength(floatValue.num)
        exponent == floatValue.exp + length
    IN  IF floatValue.kind = "nan" THEN sign * 32768 + 31 * 1024 + 1023
        ELSE IF floatValue.kind = "inf" THEN sign * 32768 + 31 * 1024
        ELSE IF floatValue.num = 0
        THEN sign * 32768
        ELSE IF exponent < 0 - 15 + 2
        THEN sign * 32768
        ELSE IF exponent > 15 + 1
        THEN sign * 32768 + 31 * 1024
        ELSE sign * 32768 + (exponent - 1 + 15) * 1024
                 + (TruncScaled(floatValue.num, 11 - length) - 1024)

encodeFloat16(floatValue) ==
    LET \* floatValue < 0.0: false for a zero of either sign and for a NaN
        sign == IF \/ floatValue.kind = "inf" /\ floatValue.neg
                   \/ floatValue.kind = "finite" /\ floatValue.neg /\ floatValue.num # 0
                THEN 1 ELSE 0
        \* math.frexp(absValue) is (num / 2^length, exponent)
        length == BitLength(floatValue.num)
        exponent == floatValue.exp + length
    IN  IF floatValue.kind = "nan" THEN sign * 32768 + 31 * 1024 + 1023
        ELSE IF floatValue.kind = "inf" THEN sign * 32768 + 31 * 1024
        ELSE IF floatValue.num = 0
        THEN \* candidateMantissa < 0.1
             sign * 32768
        ELSE IF exponent < 0 - 15 + 2
        THEN sign * 32768 + TruncScaled(floatValue.num, 15 + 10 - 1 + exponent - length)
        ELSE IF exponent > 15 + 1
        THEN sign * 32768 + 31 * 1024
        ELSE sign * 32768 + (exponent - 1 + 15) * 1024
                 + (TruncScaled(floatValue.num, 11 - length) - 1024)

\* x / 255.0 for a byte x
ByteRatio(x) == [num |-> x, den |-> 255]

\* int(x * 255) for a ratio x
EncodeFloat8(x) == (x.num * 255) \div x.den

\* Python's == on two floats of parseFloat16
FloatEquals(a, b) ==
    /\ a.kind # "nan" /\ b.kind # "nan"
    /\ \/ a = b
       \/ a.kind = "finite" /\ b.kind = "finite" /\ a.num = 0 /\ b.num = 0

FmdlVertexDatumType ==
    [position |-> 0, boneWeights |-> 1, normal |-> 2, color |-> 3, boneIndices |-> 7,
     uv0 |-> 8, uv1 |-> 9, uv2 |-> 10, uv3 |-> 11, tangent |-> 14]

FmdlVertexDatumFormat ==
    [tripleFloat32 |-> 1, quadFloat16 |-> 6, doubleFloat16 |-> 7, quadFloat8 |-> 8,
     quadInt8 |-> 9]

\* one record of block 5: a bone group as the list of the positions its bones
\* have in the list of bones
ParseBoneGroup(definition, boneList) ==
    LET entryCount == Min(UnpackUInt(definition, 2, 2), 32)
        entries == Collect([i \in 1..entryCount |->
            LET boneID == UnpackUInt(definition, (i - 1) * 2 + 4, 2) IN
            IF ~(boneID < Len(boneList))
            THEN Fail(InvalidFmdl("Invalid bone ID referenced by bone group"))
            ELSE Ok(boneID)])
    IN  IF entries.err # NoError THEN entries ELSE Ok([bones |-> entries.val])

parseBoneGroups(fmdl, boneList) ==
    IF 5 \notin DOMAIN fmdl.seg0 THEN Ok(<<>>)
    ELSE Collect([i \in DOMAIN fmdl.seg0[5] |-> ParseBoneGroup(fmdl.seg0[5][i], boneList)])

parseLevelsOfDetail(fmdl) ==
    IF 16 \notin DOMAIN fmdl.seg0
    THEN Fail(InvalidFmdl("Level Of Detail specification missing"))
    ELSE IF Len(fmdl.seg0[16]) # 1
    THEN Fail(InvalidFmdl("Unexpected Level Of Detail specification, expected 1 record"))
    ELSE Ok(UnpackUInt(fmdl.seg0[16][1], 0, 4))

parseFaceIndices(fmdl) ==
    IF 17 \notin DOMAIN fmdl.seg0 THEN <<>>
    ELSE [i \in DOMAIN fmdl.seg0[17] |->
            [firstFaceVertexIndex |-> UnpackUInt(fmdl.seg0[17][i], 0, 4),
             faceVertexCount |-> UnpackUInt(fmdl.seg0[17][i], 4, 4)]]

\* the offset field of every record of block 14
parseBufferOffsets(fmdl) ==
    IF 14 \notin DOMAIN fmdl.seg0 THEN <<>>
    ELSE [i \in DOMAIN fmdl.seg0[14] |-> UnpackUInt(fmdl.seg0[14][i], 8, 4)]

parseMeshFormats(fmdl) ==
    IF 10 \notin DOMAIN fmdl.seg0 THEN <<>>
    ELSE [i \in DOMAIN fmdl.seg0[10] |->
            [bufferID |-> UnpackUInt(fmdl.seg0[10][i], 0, 1),
             bufferOffset |-> UnpackUInt(fmdl.seg0[10][i], 4, 4),
             bufferOffsetIncrement |-> UnpackUInt(fmdl.seg0[10][i], 2, 1),
             vertexFormatEntryCount |-> UnpackUInt(fmdl.seg0[10][i], 1, 1)]]

parseVertexFormats(fmdl) ==
    IF 11 \notin DOMAIN fmdl.seg0 THEN Ok(<<>>)
    ELSE Collect([i \in DOMAIN fmdl.seg0[11] |->
        LET datumType == UnpackUInt(fmdl.seg0[11][i], 0, 1)
            datumFormat == UnpackUInt(fmdl.seg0[11][i], 1, 1)
            offset == UnpackUInt(fmdl.seg0[11][i], 2, 2)
        IN  IF datumType \notin Range(FmdlVertexDatumType)
            THEN Fail(InvalidFmdl("Invalid vertex datum type"))
            ELSE IF datumFormat \notin Range(FmdlVertexDatumFormat)
            THEN Fail(InvalidFmdl("Invalid vertex datum format"))
            ELSE Ok([datumType |-> datumType, datumFormat |-> datumFormat,
                     offset |-> offset])])

\* the inner loop of parseMeshFormatAssignments for one mesh format
\* definition: vertexEntryCount times its (offset, increment)
MeshFormatSlots(meshFormat, bufferOffsets) ==
    IF ~(meshFormat.bufferID < Len(bufferOffsets))
    THEN Fail(InvalidFmdl("Invalid buffer offset ID referenced by mesh format definition"))
    ELSE Ok([k \in 1..meshFormat.vertexFormatEntryCount |->
               [offset |-> At(bufferOffsets, meshFormat.bufferID) + meshFormat.bufferOffset,
                increment |-> meshFormat.bufferOffsetIncrement]])

\* one record of block 9: the list of (datumType, datumFormat, offset, increment)
ParseMeshFormatAssignment(definition, meshFormatDefinitions, vertexFormatDefinitions, bufferOffsets) ==
    LET meshFormatEntryCount == UnpackUInt(definition, 0, 1)
        vertexFormatEntryCount == UnpackUInt(definition, 1, 1)
        firstMeshFormatID == UnpackUInt(definition, 4, 2)
        firstVertexFormatID == UnpackUInt(definition, 6, 2)
    IN
    IF ~(firstMeshFormatID + meshFormatEntryCount <= Len(meshFormatDefinitions))
    THEN Fail(InvalidFmdl("Invalid mesh format entry referenced by mesh format assignment"))
    ELSE IF ~(firstVertexFormatID + vertexFormatEntryCount <= Len(vertexFormatDefinitions))
    THEN Fail(InvalidFmdl("Invalid vertex format entry referenced by mesh format assignment"))
    ELSE
    LET slots == Collect([k \in 1..meshFormatEntryCount |->
                     MeshFormatSlots(At(meshFormatDefinitions, firstMeshFormatID + k - 1),
                                     bufferOffsets)])
    IN
    IF slots.err # NoError THEN slots
    ELSE
    LET vertexFormat == Concat(slots.val) IN
    IF Len(vertexFormat) # vertexFormatEntryCount
    THEN Fail(InvalidFmdl("Incorrect number of mesh format definitions"))
    ELSE Ok([i \in 1..vertexFormatEntryCount |->
               LET definitionOfI == At(vertexFormatDefinitions, i - 1 + firstVertexFormatID) IN
               [datumType |-> definitionOfI.datumType,
                datumFormat |-> definitionOfI.datumFormat,
                offset |-> vertexFormat[i].offset + definitionOfI.offset,
                increment |-> vertexFormat[i].increment]])

parseMeshFormatAssignments(fmdl, bufferOffsets) ==
    IF 9 \notin DOMAIN fmdl.seg0 THEN Ok(<<>>)
    ELSE
    LET meshFormatDefinitions == parseMeshFormats(fmdl)
        vertexFormatDefinitions == parseVertexFormats(fmdl)
    IN
    IF vertexFormatDefinitions.err # NoError THEN vertexFormatDefinitions
    ELSE Collect([i \in DOMAIN fmdl.seg0[9] |->
             ParseMeshFormatAssignment(fmdl.seg0[9][i], meshFormatDefinitions,
                 vertexFormatDefinitions.val, bufferOffsets)])

\* struct.calcsize of the format unpack_from is called with
DatumSize(datumFormat) ==
    IF datumFormat = FmdlVertexDatumFormat.tripleFloat32 THEN 12
    ELSE IF datumFormat = FmdlVertexDatumFormat.quadFloat16 THEN 8
    ELSE 4

\* the value parseVertices unpacks for one format entry
UnpackDatum(vertexBuffer, datumFormat, position) ==
    IF datumFormat = FmdlVertexDatumFormat.tripleFloat32
    THEN [i \in 1..3 |-> SubSeq(vertexBuffer, position + 4 * i - 3, position + 4 * i)]
    ELSE IF datumFormat = FmdlVertexDatumFormat.quadFloat16
    THEN [i \in 1..4 |-> parseFloat16(UnpackUInt(vertexBuffer, position + 2 * (i - 1), 2))]
    ELSE IF datumFormat = FmdlVertexDatumFormat.doubleFloat16
    THEN [i \in 1..2 |-> parseFloat16(UnpackUInt(vertexBuffer, position + 2 * (i - 1), 2))]
    ELSE IF datumFormat = FmdlVertexDatumFormat.quadFloat8
    THEN [i \in 1..4 |-> ByteRatio(vertexBuffer[position + i])]
    ELSE [i \in 1..4 |-> vertexBuffer[position + i]]

\* the datumFormat parseVertices and addVertices accept for a datumType
ExpectedFormat(datumType) ==
    IF datumType = FmdlVertexDatumType.position THEN FmdlVertexDatumFormat.tripleFloat32
    ELSE IF datumType \in {FmdlVertexDatumType.normal, FmdlVertexDatumType.tangent}
    THEN FmdlVertexDatumFormat.quadFloat16
    ELSE IF datumType \in {FmdlVertexDatumType.color, FmdlVertexDatumType.boneWeights}
    THEN FmdlVertexDatumFormat.quadFloat8
    ELSE IF datumType = FmdlVertexDatumType.boneIndices THEN FmdlVertexDatumFormat.quadInt8
    ELSE FmdlVertexDatumFormat.doubleFloat16

\* the body of the loop over format in parseVertices, for one entry
ParseDatum(vertexBuffer, entry, vertexIndex) ==
    LET position == entry.offset + vertexIndex * entry.increment IN
    IF entry.datumFormat \notin Range(FmdlVertexDatumFormat)
    THEN Fail(InvalidFmdl("Unexpected vertex datum format"))
    ELSE IF position + DatumSize(entry.datumFormat) > Len(vertexBuffer)
    THEN Fail(Raise("struct.error", "unpack_from requires a buffer of more bytes"))
    ELSE IF entry.datumType \notin Range(FmdlVertexDatumType)
    THEN Fail(InvalidFmdl("Unexpected vertex datum type"))
    ELSE IF entry.datumFormat # ExpectedFormat(entry.datumType)
    THEN Fail(InvalidFmdl("Unexpected format for vertex data"))
    ELSE Ok(UnpackDatum(vertexBuffer, entry.datumFormat, position))

\* dict[key] = value for a dict kept as the list of its (key, value) pairs
DictPut(dict, key, value) ==
    IF \E k \in DOMAIN dict : dict[k][1] = key
    THEN [k \in DOMAIN dict |-> IF dict[k][1] = key THEN <<key, value>> ELSE dict[k]]
    ELSE Append(dict, <<key, value>>)

\* boneWeights[i] > 0.01 for a weight x / 255.0
WeightCountsHundredth(weight) == weight.num * 100 > weight.den

\* boneWeights[i] > 0.000001 for a weight x / 255.0
WeightCounts(weight) == weight.num * 1000000 > weight.den

RECURSIVE BoneMapping(_, _, _, _, _)
\* the loop "for i in range(4)" of parseVertices from slot i on: the dict
\* bone -> weight, a bone being its position in the list of bones
BoneMapping(i, boneWeights, boneIndices, boneGroup, boneMapping) ==
    IF i >= 4 THEN boneMapping
    ELSE IF WeightCounts(At(boneWeights, i)) /\ At(boneIndices, i) < Len(boneGroup.bones)
    THEN BoneMapping(i + 1, boneWeights, boneIndices, boneGroup,
             DictPut(boneMapping, At(boneGroup.bones, At(boneIndices, i)), At(boneWeights, i)))
    ELSE BoneMapping(i + 1, boneWeights, boneIndices, boneGroup, boneMapping)

\* the value of the entry of format with the given datumType, None without one
DatumOf(format, values, datumType) ==
    IF \E k \in DOMAIN format : format[k].datumType = datumType
    THEN Some(values[CHOOSE k \in DOMAIN format : format[k].datumType = datumType])
    ELSE None

\* one vertex of parseVertices; boneGroup is None or Some(bone group)
ParseVertex(vertexBuffer, format, boneGroup, vertexIndex) ==
    LET values == Collect([k \in DOMAIN format |->
                      ParseDatum(vertexBuffer, format[k], vertexIndex)])
    IN
    IF values.err # NoError THEN values
    ELSE
    LET uvs == [i \in 0..3 |-> DatumOf(format, values.val, FmdlVertexDatumType.uv0 + i)]
        boneWeights == DatumOf(format, values.val, FmdlVertexDatumType.boneWeights)
        boneIndices == DatumOf(format, values.val, FmdlVertexDatumType.boneIndices)
    IN
    IF /\ boneWeights # None /\ boneIndices = None
       /\ \E i \in 0..3 : WeightCounts(At(The(boneWeights), i))
    THEN \* boneIndices[i] of None
         Fail(Raise("TypeError", "'NoneType' object is not subscriptable"))
    ELSE IF /\ boneWeights # None /\ boneGroup = None
            /\ \E i \in 0..3 : WeightCounts(At(The(boneWeights), i))
    THEN \* boneGroup.bones of None
         Fail(Raise("AttributeError", "'NoneType' object has no attribute 'bones'"))
    ELSE Ok([position |-> DatumOf(format, values.val, FmdlVertexDatumType.position),
             normal |-> DatumOf(format, values.val, FmdlVertexDatumType.normal),
             tangent |-> DatumOf(format, values.val, FmdlVertexDatumType.tangent),
             color |-> DatumOf(format, values.val, FmdlVertexDatumType.color),
             uv |-> Concat([i \in 1..4 |-> uvs[i - 1]]),
             boneMapping |-> IF boneWeights = None THEN None
                             ELSE IF boneIndices = None \/ boneGroup = None
                             THEN Some(<<>>)
                             ELSE Some(BoneMapping(0, The(boneWeights), The(boneIndices),
                                                   The(boneGroup), <<>>))])

\* parseVertices, under the assumptions its comment states: no datum type
\* occurs twice in format, and boneWeights comes with boneIndices
parseVertices(fmdl, format, boneGroup, vertexCount) ==
    IF 2 \notin DOMAIN fmdl.seg1
    THEN Fail(InvalidFmdl("Vertex block not found"))
    ELSE Collect([k \in 1..vertexCount |->
             ParseVertex(fmdl.seg1[2], format, boneGroup, k - 1)])

\* one iteration of the loop of parseFaces: the face as the positions of its
\* three vertices in the list vertices, vertexCount being len(vertices)
ParseFace(vertexBuffer, position, vertexCount) ==
    IF position + 6 > Len(vertexBuffer)
    THEN Fail(Raise("struct.error", "unpack_from requires a buffer of at least 6 bytes"))
    ELSE
    LET index1 == UnpackUInt(vertexBuffer, position, 2)
        index2 == UnpackUInt(vertexBuffer, position + 2, 2)
        index3 == UnpackUInt(vertexBuffer, position + 4, 2)
    IN
    IF ~(index1 < vertexCount) /\ index2 < vertexCount /\ index3 < vertexCount
    THEN Fail(InvalidFmdl("Invalid vertex referenced by face"))
    ELSE IF ~(index1 < vertexCount /\ index2 < vertexCount /\ index3 < vertexCount)
    THEN \* vertices[index] for an index past the end of the list
         Fail(Raise("IndexError", "list index out of range"))
    ELSE Ok(<<index1, index2, index3>>)

\* range(firstFaceVertexIndex, firstFaceVertexIndex + faceVertexCount, 3)
FaceVertexIndices(firstFaceVertexIndex, faceVertexCount) ==
    [k \in 1..((faceVertexCount + 2) \div 3) |-> firstFaceVertexIndex + 3 * (k - 1)]

parseFaces(fmdl, vertexBufferOffset, firstFaceVertexIndex, faceVertexCount, vertexCount) ==
    IF 2 \notin DOMAIN fmdl.seg1
    THEN Fail(InvalidFmdl("Vertex block not found"))
    ELSE LET indices == FaceVertexIndices(firstFaceVertexIndex, faceVertexCount) IN
         Collect([k \in DOMAIN indices |->
             ParseFace(fmdl.seg1[2], indices[k] * 2 + vertexBufferOffset, vertexCount)])

\* whether format has an entry of the datumType
HasDatum(format, datumType) == \E k \in DOMAIN format : format[k].datumType = datumType

\* uvOffsets[i]: the offset of the entry of type uv(i)
UvOffset(format, i) ==
    format[CHOOSE k \in DOMAIN format :
               format[k].datumType = FmdlVertexDatumType.uv0 + i].offset

\* the VertexFields parseMeshes derives from a format that passed its checks
VertexFieldsOf(format) ==
    LET uvCount == Cardinality({k \in DOMAIN format :
                       format[k].datumType \in {FmdlVertexDatumType.uv0,
                           FmdlVertexDatumType.uv1, FmdlVertexDatumType.uv2,
                           FmdlVertexDatumType.uv3}})
    IN  [hasNormal |-> HasDatum(format, FmdlVertexDatumType.normal),
         hasTangent |-> HasDatum(format, FmdlVertexDatumType.tangent),
         hasColor |-> HasDatum(format, FmdlVertexDatumType.color),
         hasBoneMapping |-> \/ HasDatum(format, FmdlVertexDatumType.boneWeights)
                            \/ HasDatum(format, FmdlVertexDatumType.boneIndices),
         uvCount |-> uvCount,
         uvEqualities |-> [i \in 0..(uvCount - 1) |->
             SortedSeq({j \in 0..(uvCount - 1) :
                 i # j /\ UvOffset(format, i) = UvOffset(format, j)})]]

\* the checks of parseMeshes without those on the uv channels
CheckFormatAnyUv(format) ==
    IF \E k, l \in DOMAIN format : k < l /\ format[k].datumType = format[l].datumType
    THEN InvalidFmdl("Duplicate vertex field found in vertex format definition")
    ELSE IF HasDatum(format, FmdlVertexDatumType.boneWeights)
              # HasDatum(format, FmdlVertexDatumType.boneIndices)
    THEN InvalidFmdl("Invalid vertex format specification: contains one of (bone weights, bone indices) but not the other")
    ELSE NoError

\* the checks parseMeshes makes on the format of a mesh
CheckFormat(format) ==
    IF \E k, l \in DOMAIN format : k < l /\ format[k].datumType = format[l].datumType
    THEN InvalidFmdl("Duplicate vertex field found in vertex format definition")
    ELSE IF /\ HasDatum(format, FmdlVertexDatumType.uv3)
            /\ ~HasDatum(format, FmdlVertexDatumType.uv2)
    THEN InvalidFmdl("Non-monotonic UV map in vertex format definition: has uv3 but not uv2")
    ELSE IF /\ HasDatum(format, FmdlVertexDatumType.uv2)
            /\ ~HasDatum(format, FmdlVertexDatumType.uv1)
    THEN InvalidFmdl("Non-monotonic UV map in vertex format definition: has uv2 but not uv1")
    ELSE IF /\ HasDatum(format, FmdlVertexDatumType.uv1)
            /\ ~HasDatum(format, FmdlVertexDatumType.uv0)
    THEN InvalidFmdl("Non-monotonic UV map in vertex format definition: has uv1 but not uv0")
    ELSE IF HasDatum(format, FmdlVertexDatumType.boneWeights)
              # HasDatum(format, FmdlVertexDatumType.boneIndices)
    THEN InvalidFmdl("Invalid vertex format specification: contains one of (bone weights, bone indices) but not the other")
    ELSE NoError

\* the loop body of parseMeshes, for one record of block 3; a mesh keeps
\* its material instance as the position in the list of material instances
ParseMesh(fmdl, definition, instances, boneGroups, faceIndices, bufferOffsets, meshFormats) ==
    LET alphaEnum == UnpackUInt(definition, 0, 1)
        shadowEnum == UnpackUInt(definition, 1, 1)
        materialInstanceID == UnpackUInt(definition, 4, 2)
        boneGroupID == UnpackUInt(definition, 6, 2)
        meshFormatID == UnpackUInt(definition, 8, 2)
        vertexCount == UnpackUInt(definition, 10, 2)
        firstFaceVertexIndex == UnpackUInt(definition, 16, 4)
        faceVertexCount == UnpackUInt(definition, 20, 4)
        firstFaceIndexID == UnpackUInt(definition, 24, 8)
    IN
    IF ~(meshFormatID < Len(meshFormats))
    THEN Fail(InvalidFmdl("Invalid mesh format ID referenced by mesh"))
    ELSE
    LET format == At(meshFormats, meshFormatID) IN
    IF CheckFormat(format) # NoError THEN Fail(CheckFormat(format))
    ELSE IF ~(materialInstanceID < Len(instances))
    THEN Fail(InvalidFmdl("Invalid material instance ID referenced by mesh"))
    ELSE IF /\ HasDatum(format, FmdlVertexDatumType.boneIndices)
            /\ ~(boneGroupID < Len(boneGroups))
    THEN Fail(InvalidFmdl("Invalid bone group ID referenced by mesh"))
    ELSE IF ~(firstFaceIndexID < Len(faceIndices))
    THEN Fail(InvalidFmdl("Invalid face index ID referenced by mesh"))
    ELSE
    LET boneGroup == IF ~HasDatum(format, FmdlVertexDatumType.boneIndices) THEN None
                     ELSE Some(At(boneGroups, boneGroupID))
        lod == At(faceIndices, firstFaceIndexID)
        vertices == parseVertices(fmdl, format, boneGroup, vertexCount)
    IN
    IF vertices.err # NoError THEN vertices
    ELSE
    LET faces == parseFaces(fmdl, At(bufferOffsets, 2),
                     firstFaceVertexIndex + lod.firstFaceVertexIndex,
                     lod.faceVertexCount, Len(vertices.val))
    IN
    IF faces.err # NoError THEN faces
    ELSE Ok([vertices |-> vertices.val,
             faces |-> faces.val,
             boneGroup |-> boneGroup,
             materialInstance |-> materialInstanceID,
             alphaEnum |-> alphaEnum,
             shadowEnum |-> shadowEnum,
             vertexFields |-> VertexFieldsOf(format)])

parseMeshes(fmdl, boneList, instances) ==
    IF 3 \notin DOMAIN fmdl.seg0 THEN Ok(<<>>)
    ELSE
    LET boneGroups == parseBoneGroups(fmdl, boneList) IN
    IF boneGroups.err # NoError THEN boneGroups
    ELSE
    LET levelsOfDetail == parseLevelsOfDetail(fmdl) IN
    IF levelsOfDetail.err # NoError THEN levelsOfDetail
    ELSE
    LET faceIndices == parseFaceIndices(fmdl)
        bufferOffsets == parseBufferOffsets(fmdl)
        meshFormats == parseMeshFormatAssignments(fmdl, bufferOffsets)
    IN
    IF meshFormats.err # NoError THEN meshFormats
    ELSE IF Len(bufferOffsets) < 3
    THEN Fail(InvalidFmdl("Missing face buffer"))
    ELSE Collect([i \in DOMAIN fmdl.seg0[3] |->
             ParseMesh(fmdl, fmdl.seg0[3][i], instances, boneGroups.val, faceIndices,
                       bufferOffsets, meshFormats.val)])

(***************************************************************************)
(* Writing.  A function that adds to the container gives [err, fmdl, ID]:  *)
(* the exception it raises, or the container afterwards and the value it   *)
(* returns.  An entity (bone, material instance, mesh, mesh group) is      *)
(* named by its position in the FmdlFile's list, so the dicts boneIndices, *)
(* materialInstanceIndices, meshIndices and meshGroupIndices, which give   *)
(* the k-th member of a list the index k, are not kept.                    *)
(***************************************************************************)
Done(fmdl, ID) == [err |-> NoError, fmdl |-> fmdl, ID |-> ID]
Failed(e) == [err |-> e, fmdl |-> NewContainer, ID |-> 0]

\* "first; next": what first raised, or next of what first returned
Then(first, next(_)) == IF first.err # NoError THEN first ELSE next(first)

\* "value; body": body of the value
With(value, body(_)) == body(value)

\* FmdlFile.newSegment0BlockDescriptorID on a container
NewID(fmdl, blockID) ==
    Done([fmdl EXCEPT !.seg0 = newSegment0BlockDescriptorID(fmdl.seg0, blockID)],
         IF blockID \in DOMAIN fmdl.seg0 THEN Len(fmdl.seg0[blockID]) ELSE 0)

\* FmdlFile.addSegment0Block on a container
AddBlock(fmdl, blockID, block) ==
    Done([fmdl EXCEPT !.seg0 = addSegment0Block(fmdl.seg0, blockID, block)],
         IF blockID \in DOMAIN fmdl.seg0 THEN Len(fmdl.seg0[blockID]) ELSE 0)

\* bytes(string, 'utf-8') of one code point (no surrogate)
Utf8EncodeChar(c) ==
    IF c < 128 THEN <<c>>
    ELSE IF c < 2048 THEN <<192 + (c \div 64), 128 + (c % 64)>>
    ELSE IF c < 65536
    THEN <<224 + (c \div 4096), 128 + ((c \div 64) % 64), 128 + (c % 64)>>
    ELSE <<240 + (c \div 262144), 128 + ((c \div 4096) % 64), 128 + ((c \div 64) % 64),
           128 + (c % 64)>>

Utf8Encode(string) == Concat([i \in DOMAIN string |-> Utf8EncodeChar(string[i])])

\* pack('< H H I', 3, length, offset)
StringRecord(length, offset) == PackUInt(3, 2) \o PackUInt(length, 2) \o PackUInt(offset, 4)

\* addString with the NUL counted in the length of the record
addStringCountingNul(fmdl, string) ==
    AddBlock([fmdl EXCEPT !.seg1 = appendSegment1(fmdl.seg1, 3, Utf8Encode(string) \o <<0>>)],
             12, StringRecord(Len(Utf8Encode(string)) + 1,
                              IF 3 \in DOMAIN fmdl.seg1 THEN Len(fmdl.seg1[3]) ELSE 0))

addString(fmdl, string) ==
    LET encoded == Utf8Encode(string)
        offset == IF 3 \in DOMAIN fmdl.seg1 THEN Len(fmdl.seg1[3]) ELSE 0
    IN  AddBlock([fmdl EXCEPT !.seg1 = appendSegment1(fmdl.seg1, 3, encoded \o <<0>>)],
                 12, StringRecord(Len(encoded), offset))

\* boundingBox is None or Some(bounding box); the record is max, then min
addBoundingBox(fmdl, boundingBox) ==
    IF boundingBox = None
    THEN Failed(Raise("AttributeError", "'NoneType' object has no attribute 'max'"))
    ELSE AddBlock(fmdl, 13, The(boundingBox).max \o The(boundingBox).min)

\* pack('< H h H H Q 4f 4f', ...)
BoneRecord(nameStringID, parentBoneID, boundingBoxID, localPosition, globalPosition) ==
    PackUInt(nameStringID, 2) \o PackInt16(parentBoneID) \o PackUInt(boundingBoxID, 2)
        \o PackUInt(1, 2) \o PackUInt(0, 8) \o localPosition \o globalPosition

\* addBone that writes 0 for the parent of a bone without parent
addBoneParentZero(fmdl, bone, boneIndices) ==
    Then(addString(fmdl, bone.name), LAMBDA name :
    Then(addBoundingBox(name.fmdl, Some(bone.boundingBox)), LAMBDA box :
    AddBlock(box.fmdl, 0,
        BoneRecord(name.ID,
                   IF bone.parent # None /\ The(bone.parent) < Len(boneIndices)
                   THEN At(boneIndices, The(bone.parent)) ELSE 0,
                   box.ID, bone.localPosition, bone.globalPosition))))

\* addBone writing the position of the parent in the list of bones
addBoneParentPosition(fmdl, bone, boneIndices) ==
    Then(addString(fmdl, bone.name), LAMBDA name :
    Then(addBoundingBox(name.fmdl, Some(bone.boundingBox)), LAMBDA box :
    AddBlock(box.fmdl, 0,
        BoneRecord(name.ID,
                   IF bone.parent # None /\ The(bone.parent) < Len(boneIndices)
                   THEN The(bone.parent) ELSE -1,
                   box.ID, bone.localPosition, bone.globalPosition))))

\* boneIndices is the dict of storeBones, as the list of the indices of the
\* bones of the list in order; a parent is the position of a bone in the
\* list, or a number past the list for a bone that is not in it
addBone(fmdl, bone, boneIndices) ==
    Then(addString(fmdl, bone.name), LAMBDA name :
    Then(addBoundingBox(name.fmdl, Some(bone.boundingBox)), LAMBDA box :
    AddBlock(box.fmdl, 0,
        BoneRecord(name.ID,
                   IF bone.parent # None /\ The(bone.parent) < Len(boneIndices)
                   THEN At(boneIndices, The(bone.parent)) ELSE -1,
                   box.ID, bone.localPosition, bone.globalPosition))))

RECURSIVE StoreBonesFrom(_, _, _, _)
\* "for bone in bones: addBone(...)" from the i-th bone on
StoreBonesFrom(fmdl, boneList, boneIndices, i) ==
    IF i > Len(boneList) THEN Done(fmdl, 0)
    ELSE Then(addBone(fmdl, boneList[i], boneIndices), LAMBDA added :
         StoreBonesFrom(added.fmdl, boneList, boneIndices, i + 1))

\* the first loop gives the k-th bone of the list the index boneIndex + k
storeBones(fmdl, boneList) ==
    With(NewID(fmdl, 0), LAMBDA boneIndex :
    StoreBonesFrom(boneIndex.fmdl, boneList,
        [k \in DOMAIN boneList |-> boneIndex.ID + k - 1], 1))

addMaterial(fmdl, shader, technique) ==
    Then(addString(fmdl, shader), LAMBDA shaderString :
    Then(addString(shaderString.fmdl, technique), LAMBDA techniqueString :
    AddBlock(techniqueString.fmdl, 8, MaterialRecord(shaderString.ID, techniqueString.ID))))

addTexture(fmdl, filename, directory) ==
    Then(addString(fmdl, filename), LAMBDA filenameString :
    Then(addString(filenameString.fmdl, directory), LAMBDA directoryString :
    AddBlock(directoryString.fmdl, 6, TextureRecord(filenameString.ID, directoryString.ID))))

addTextureMaterialParameterAssignment(fmdl, parameterName, valueID) ==
    Then(addString(fmdl, parameterName), LAMBDA nameString :
    AddBlock(nameString.fmdl, 7,
             TextureMaterialParameterAssignmentRecord(nameString.ID, valueID)))

\* parameterValues are four floats read with 'f', kept as their 16 bytes
addMaterialParameterValues(fmdl, parameterValues) ==
    Done([fmdl EXCEPT !.seg1 = appendSegment1(fmdl.seg1, 0, parameterValues)],
         (IF 0 \in DOMAIN fmdl.seg1 THEN Len(fmdl.seg1[0]) ELSE 0) \div 16)

RECURSIVE AddTexturesFrom(_, _, _)
\* "for (role, texture) in materialInstance.textures" from the i-th pair on
AddTexturesFrom(fmdl, pairs, i) ==
    IF i > Len(pairs) THEN Done(fmdl, 0)
    ELSE Then(addTexture(fmdl, pairs[i][2].filename, pairs[i][2].directory), LAMBDA texture :
         Then(addTextureMaterialParameterAssignment(texture.fmdl, pairs[i][1], texture.ID),
              LAMBDA assigned : AddTexturesFrom(assigned.fmdl, pairs, i + 1)))

RECURSIVE AddParametersFrom(_, _, _)
\* "for (parameter, values) in materialInstance.parameters" from the i-th pair on
AddParametersFrom(fmdl, pairs, i) ==
    IF i > Len(pairs) THEN Done(fmdl, 0)
    ELSE Then(addMaterialParameterValues(fmdl, pairs[i][2]), LAMBDA values :
         Then(addTextureMaterialParameterAssignment(values.fmdl, pairs[i][1], values.ID),
              LAMBDA assigned : AddParametersFrom(assigned.fmdl, pairs, i + 1)))

\* addMaterialInstance taking the ID of the first parameter assignment
\* where it takes the ID of the first texture assignment
addMaterialInstanceOneStart(fmdl, materialInstance) ==
    Then(addString(fmdl, materialInstance.name), LAMBDA nameString :
    Then(addMaterial(nameString.fmdl, materialInstance.shader, materialInstance.technique),
         LAMBDA material :
    Then(NewID(material.fmdl, 7), LAMBDA firstTextureAssignmentID :
    Then(AddTexturesFrom(firstTextureAssignmentID.fmdl, materialInstance.textures, 1),
         LAMBDA withTextures :
    Then(AddParametersFrom(withTextures.fmdl, materialInstance.parameters, 1),
         LAMBDA withParameters :
    AddBlock(withParameters.fmdl, 4,
        MaterialInstanceRecord(nameString.ID, material.ID,
            Len(materialInstance.textures), Len(materialInstance.parameters),
            firstTextureAssignmentID.ID, firstTextureAssignmentID.ID)))))))

addMaterialInstance(fmdl, materialInstance) ==
    Then(addString(fmdl, materialInstance.name), LAMBDA nameString :
    Then(addMaterial(nameString.fmdl, materialInstance.shader, materialInstance.technique),
         LAMBDA material :
    Then(NewID(material.fmdl, 7), LAMBDA firstTextureAssignmentID :
    Then(AddTexturesFrom(firstTextureAssignmentID.fmdl, materialInstance.textures, 1),
         LAMBDA withTextures :
    Then(NewID(withTextures.fmdl, 7), LAMBDA firstMaterialParameterAssignmentID :
    Then(AddParametersFrom(firstMaterialParameterAssignmentID.fmdl,
                           materialInstance.parameters, 1),
         LAMBDA withParameters :
    AddBlock(withParameters.fmdl, 4,
        MaterialInstanceRecord(nameString.ID, material.ID,
            Len(materialInstance.textures), Len(materialInstance.parameters),
            firstTextureAssignmentID.ID, firstMaterialParameterAssignmentID.ID))))))))

RECURSIVE StoreMaterialInstancesFrom(_, _, _)
StoreMaterialInstancesFrom(fmdl, instances, i) ==
    IF i > Len(instances) THEN Done(fmdl, 0)
    ELSE Then(addMaterialInstance(fmdl, instances[i]), LAMBDA added :
         StoreMaterialInstancesFrom(added.fmdl, instances, i + 1))

storeMaterialInstances(fmdl, instances) == StoreMaterialInstancesFrom(fmdl, instances, 1)

\* dict[key] for a dict kept as the list of its (key, value) pairs
DictGet(dict, key) == dict[CHOOSE k \in DOMAIN dict : dict[k][1] = key][2]
DictHas(dict, key) == \E k \in DOMAIN dict : dict[k][1] = key

RECURSIVE BoneGroupIndices(_, _, _)
\* boneGroupIndices[boneGroup.bones[i]] = i, from the i-th bone (0-based) on
BoneGroupIndices(groupBones, i, dict) ==
    IF i >= Len(groupBones) THEN dict
    ELSE BoneGroupIndices(groupBones, i + 1, DictPut(dict, At(groupBones, i), i))

\* bytearray(68) with pack_into('< HH', 0, 4, n) and the bone indices from
\* byte 4 on; boneIndices[bone] is the position of the bone
BoneGroupRecord(groupBones) ==
    PackUInt(4, 2) \o PackUInt(Len(groupBones), 2)
        \o Concat([i \in DOMAIN groupBones |-> PackUInt(groupBones[i], 2)])
        \o Zeros(64 - 2 * Len(groupBones))

\* addBoneGroup with the test len(boneGroup.bones) >= 32
addBoneGroupBelow32(fmdl, boneGroup) ==
    IF boneGroup = None
    THEN [err |-> Raise("AttributeError", "'NoneType' object has no attribute 'bones'"),
          fmdl |-> fmdl, ID |-> 0, boneGroupIndices |-> <<>>]
    ELSE IF Len(The(boneGroup).bones) >= 32
    THEN [err |-> InvalidFmdl("Too many bones in bone group"),
          fmdl |-> fmdl, ID |-> 0, boneGroupIndices |-> <<>>]
    ELSE LET added == AddBlock(fmdl, 5, BoneGroupRecord(The(boneGroup).bones)) IN
         [err |-> NoError, fmdl |-> added.fmdl, ID |-> added.ID,
          boneGroupIndices |-> BoneGroupIndices(The(boneGroup).bones, 0, <<>>)]

\* boneGroup is mesh.boneGroup: None or Some(bone group); gives [err, fmdl,
\* ID, boneGroupIndices]
addBoneGroup(fmdl, boneGroup) ==
    IF boneGroup = None
    THEN \* len(boneGroup.bones) of None
         [err |-> Raise("AttributeError", "'NoneType' object has no attribute 'bones'"),
          fmdl |-> fmdl, ID |-> 0, boneGroupIndices |-> <<>>]
    ELSE IF Len(The(boneGroup).bones) > 32
    THEN [err |-> InvalidFmdl("Too many bones in bone group"),
          fmdl |-> fmdl, ID |-> 0, boneGroupIndices |-> <<>>]
    ELSE LET added == AddBlock(fmdl, 5, BoneGroupRecord(The(boneGroup).bones)) IN
         [err |-> NoError, fmdl |-> added.fmdl, ID |-> added.ID,
          boneGroupIndices |-> BoneGroupIndices(The(boneGroup).bones, 0, <<>>)]

\* pack('< BBBB I', ...)
MeshFormatRecord(bufferID, vertexFormatEntryCount, bufferOffsetIncrement, meshFormatType, bufferOffset) ==
    <<bufferID, vertexFormatEntryCount, bufferOffsetIncrement, meshFormatType>>
        \o PackUInt(bufferOffset, 4)

\* pack('< BB H', datumType, datumFormat, offset)
VertexFormatRecord(datumType, datumFormat, offset) ==
    <<datumType, datumFormat>> \o PackUInt(offset, 2)

\* pack('< BBBB HH', ...)
MeshFormatAssignmentRecord(meshFormatCount, vertexFormatCount, uvCount, firstMeshFormatID, firstVertexFormatID) ==
    <<meshFormatCount, vertexFormatCount, 0, uvCount>>
        \o PackUInt(firstMeshFormatID, 2) \o PackUInt(firstVertexFormatID, 2)

addMeshFormat(fmdl, bufferID, vertexFormatEntryCount, bufferOffsetIncrement, meshFormatType, bufferOffset) ==
    AddBlock(fmdl, 10, MeshFormatRecord(bufferID, vertexFormatEntryCount,
                           bufferOffsetIncrement, meshFormatType, bufferOffset))

addVertexFormat(fmdl, datumType, datumFormat, offset) ==
    AddBlock(fmdl, 11, VertexFormatRecord(datumType, datumFormat, offset))

\* One field of addMeshFormatAssignment, when the vertex fields have it
\* (present): addVertexFormat, the append to formatEntries and the two
\* counters.  st is [fmdl, formatEntries, bufferOffsets, typeEntries, uvOffsets].
AddField(present, st, bufferID, datumType, datumFormat, size, typeEntry) ==
    IF ~present THEN st
    ELSE
    [st EXCEPT
        !.fmdl = addVertexFormat(st.fmdl, datumType, datumFormat,
                                 st.bufferOffsets[bufferID]).fmdl,
        !.formatEntries = Append(@, [bufferID |-> bufferID, datumType |-> datumType,
                                     datumFormat |-> datumFormat,
                                     offset |-> st.bufferOffsets[bufferID]]),
        !.bufferOffsets[bufferID] = @ + size,
        !.typeEntries[typeEntry] = @ + 1]

\* the first uv of the list equalities that is a key of uvOffsets, or None
EqualUv(equalities, uvOffsets) ==
    IF \E k \in DOMAIN equalities : equalities[k] \in DOMAIN uvOffsets
    THEN Some(equalities[CHOOSE k \in DOMAIN equalities :
                 /\ equalities[k] \in DOMAIN uvOffsets
                 /\ \A l \in DOMAIN equalities :
                        l < k => equalities[l] \notin DOMAIN uvOffsets])
    ELSE None

RECURSIVE AddUvFieldsApart(_, _, _)
\* the uv loop without the search for an equal uv: every channel gets its
\* own offset
AddUvFieldsApart(st, vertexFields, i) ==
    IF i >= vertexFields.uvCount \/ i >= 4 THEN st
    ELSE AddUvFieldsApart(
             [AddField(TRUE, st, 1, FmdlVertexDatumType.uv0 + i,
                       FmdlVertexDatumFormat.doubleFloat16, 4, 3)
                EXCEPT !.uvOffsets = (i :> st.bufferOffsets[1]) @@ st.uvOffsets],
             vertexFields, i + 1)

RECURSIVE AddUvFieldsUncounted(_, _, _)
\* the uv loop without the count of a channel that shares an offset
AddUvFieldsUncounted(st, vertexFields, i) ==
    IF i >= vertexFields.uvCount \/ i >= 4 THEN st
    ELSE
    With(EqualUv(IF i \in DOMAIN vertexFields.uvEqualities
                 THEN vertexFields.uvEqualities[i] ELSE <<>>, st.uvOffsets),
         LAMBDA equalUv :
    AddUvFieldsUncounted(
        IF equalUv # None
        THEN [st EXCEPT
                !.fmdl = addVertexFormat(st.fmdl, FmdlVertexDatumType.uv0 + i,
                             FmdlVertexDatumFormat.doubleFloat16,
                             st.uvOffsets[The(equalUv)]).fmdl]
        ELSE [AddField(TRUE, st, 1, FmdlVertexDatumType.uv0 + i,
                       FmdlVertexDatumFormat.doubleFloat16, 4, 3)
                EXCEPT !.uvOffsets = (i :> st.bufferOffsets[1]) @@ st.uvOffsets],
        vertexFields, i + 1))

RECURSIVE AddUvFields(_, _, _)
\* "for i in range(vertexFields.uvCount)" from i on; uvTypes has four members
AddUvFields(st, vertexFields, i) ==
    IF i >= vertexFields.uvCount \/ i >= 4 THEN st
    ELSE
    With(EqualUv(IF i \in DOMAIN vertexFields.uvEqualities
                 THEN vertexFields.uvEqualities[i] ELSE <<>>, st.uvOffsets),
         LAMBDA equalUv :
    AddUvFields(
        IF equalUv # None
        THEN [st EXCEPT
                !.fmdl = addVertexFormat(st.fmdl, FmdlVertexDatumType.uv0 + i,
                             FmdlVertexDatumFormat.doubleFloat16,
                             st.uvOffsets[The(equalUv)]).fmdl,
                !.typeEntries[3] = @ + 1]
        ELSE [AddField(TRUE, st, 1, FmdlVertexDatumType.uv0 + i,
                       FmdlVertexDatumFormat.doubleFloat16, 4, 3)
                EXCEPT !.uvOffsets = (i :> st.bufferOffsets[1]) @@ st.uvOffsets],
        vertexFields, i + 1))

RECURSIVE AddMeshFormats(_, _, _, _)
\* "for i in [1, 2, 3]: if typeEntries[i] > 0: addMeshFormat(...)" from i on
AddMeshFormats(fmdl, st, vertexDataBufferOffset, i) ==
    IF i > 3 THEN fmdl
    ELSE AddMeshFormats(
             IF st.typeEntries[i] > 0
             THEN addMeshFormat(fmdl, 1, st.typeEntries[i], st.bufferOffsets[1], i,
                                vertexDataBufferOffset).fmdl
             ELSE fmdl,
             st, vertexDataBufferOffset, i + 1)

\* gives [err, fmdl, ID, formatEntries, positionBufferEntrySize, dataBufferEntrySize]
addMeshFormatAssignment(fmdl, vertexFields, vertexPositionBufferOffset, vertexDataBufferOffset) ==
    IF vertexFields.uvCount > 4
    THEN \* uvTypes[4]
         [err |-> Raise("IndexError", "list index out of range"), fmdl |-> fmdl,
          ID |-> 0, formatEntries |-> <<>>, positionBufferEntrySize |-> 0,
          dataBufferEntrySize |-> 0]
    ELSE
    Then(NewID(fmdl, 10), LAMBDA firstMeshFormatID :
    Then(NewID(firstMeshFormatID.fmdl, 11), LAMBDA firstVertexFormatID :
    With(AddUvFields(
             AddField(vertexFields.hasBoneMapping,
                 AddField(vertexFields.hasBoneMapping,
                     AddField(vertexFields.hasColor,
                         AddField(vertexFields.hasTangent,
                             AddField(vertexFields.hasNormal,
                                 AddField(TRUE,
                                     [fmdl |-> firstVertexFormatID.fmdl,
                                      formatEntries |-> <<>>,
                                      bufferOffsets |-> [b \in 0..1 |-> 0],
                                      typeEntries |-> [t \in 0..3 |-> 0],
                                      uvOffsets |-> <<>>],
                                     0, FmdlVertexDatumType.position,
                                     FmdlVertexDatumFormat.tripleFloat32, 12, 0),
                                 1, FmdlVertexDatumType.normal,
                                 FmdlVertexDatumFormat.quadFloat16, 8, 1),
                             1, FmdlVertexDatumType.tangent,
                             FmdlVertexDatumFormat.quadFloat16, 8, 1),
                         1, FmdlVertexDatumType.color,
                         FmdlVertexDatumFormat.quadFloat8, 4, 2),
                     1, FmdlVertexDatumType.boneWeights,
                     FmdlVertexDatumFormat.quadFloat8, 4, 3),
                 1, FmdlVertexDatumType.boneIndices,
                 FmdlVertexDatumFormat.quadInt8, 4, 3),
             vertexFields, 0),
         LAMBDA st :
    Then(addMeshFormat(st.fmdl, 0, st.typeEntries[0], st.bufferOffsets[0], 0,
                       vertexPositionBufferOffset),
         LAMBDA withPosition :
    With(AddMeshFormats(withPosition.fmdl, st, vertexDataBufferOffset, 1),
         LAMBDA withData :
    Then(AddBlock(withData, 9,
             MeshFormatAssignmentRecord(Len(withData.seg0[10]) - firstMeshFormatID.ID,
                 Len(withData.seg0[11]) - firstVertexFormatID.ID,
                 vertexFields.uvCount, firstMeshFormatID.ID, firstVertexFormatID.ID)),
         LAMBDA added :
    [err |-> NoError, fmdl |-> added.fmdl, ID |-> added.ID,
     formatEntries |-> st.formatEntries,
     positionBufferEntrySize |-> st.bufferOffsets[0],
     dataBufferEntrySize |-> st.bufferOffsets[1]]))))))

\* a weight a is greater than a weight b, both ratios
WeightGreater(a, b) == a.num * b.den > b.num * a.den

\* sorted(pairs, key = weight) without reverse = True: the pairs as they are
SortedByWeightUnsorted(pairs) == pairs

RECURSIVE SortedByWeight(_)
\* sorted(pairs, key = weight, reverse = True): descending, and pairs of
\* equal weight in the order they had
SortedByWeight(pairs) ==
    IF pairs = <<>> THEN <<>>
    ELSE LET best == CHOOSE k \in DOMAIN pairs :
                         /\ \A l \in DOMAIN pairs : ~WeightGreater(pairs[l][2], pairs[k][2])
                         /\ \A l \in DOMAIN pairs :
                                l < k => WeightGreater(pairs[k][2], pairs[l][2])
         IN  <<pairs[best]>>
                 \o SortedByWeight([l \in 1..(Len(pairs) - 1) |->
                                       IF l < best THEN pairs[l] ELSE pairs[l + 1]])

\* the list bones of addVertices for a vertex with a boneMapping:
\* [err, val], KeyError for a bone that is not in the bone group
SortedBones(boneMapping, boneGroupIndices) ==
    IF \E k \in DOMAIN boneMapping : ~DictHas(boneGroupIndices, boneMapping[k][1])
    THEN Fail(Raise("KeyError", "bone"))
    ELSE Ok(SortedByWeight([k \in DOMAIN boneMapping |->
                <<DictGet(boneGroupIndices, boneMapping[k][1]), boneMapping[k][2]>>]))

\* the first four members of the list, which is padded with the filler
FirstFour(list, filler) ==
    [i \in 1..4 |-> IF i <= Len(list) THEN list[i] ELSE filler]

\* the value addVertices takes from the vertex for a datumType: [err, val];
\* sortedBones is None while the variable bones is unbound
DatumValue(vertex, datumType, sortedBones) ==
    IF datumType = FmdlVertexDatumType.position
    THEN IF vertex.position = None
         THEN Fail(Raise("AttributeError", "'NoneType' object has no attribute 'x'"))
         ELSE Ok(The(vertex.position))
    ELSE IF datumType = FmdlVertexDatumType.boneWeights
    THEN IF sortedBones = None
         THEN Fail(Raise("UnboundLocalError", "local variable 'bones' referenced before assignment"))
         ELSE Ok(FirstFour([k \in DOMAIN The(sortedBones) |-> The(sortedBones)[k][2]],
                           [num |-> 0, den |-> 1]))
    ELSE IF datumType = FmdlVertexDatumType.normal
    THEN IF vertex.normal = None
         THEN Fail(Raise("AttributeError", "'NoneType' object has no attribute 'x'"))
         ELSE Ok(The(vertex.normal))
    ELSE IF datumType = FmdlVertexDatumType.color
    THEN IF vertex.color = None
         THEN Fail(Raise("TypeError", "'NoneType' object is not iterable"))
         ELSE Ok(The(vertex.color))
    ELSE IF datumType = FmdlVertexDatumType.boneIndices
    THEN IF sortedBones = None
         THEN Fail(Raise("UnboundLocalError", "local variable 'bones' referenced before assignment"))
         ELSE Ok(FirstFour([k \in DOMAIN The(sortedBones) |-> The(sortedBones)[k][1]], 0))
    ELSE IF datumType = FmdlVertexDatumType.tangent
    THEN IF vertex.tangent = None
         THEN Fail(Raise("AttributeError", "'NoneType' object has no attribute 'x'"))
         ELSE Ok(The(vertex.tangent))
    ELSE \* uv0 .. uv3
         IF datumType - FmdlVertexDatumType.uv0 >= Len(vertex.uv)
         THEN Fail(Raise("IndexError", "list index out of range"))
         ELSE Ok(At(vertex.uv, datumType - FmdlVertexDatumType.uv0))

\* the bytes pack_into writes for a value in a datumFormat
EncodeDatum(datumFormat, value) ==
    IF datumFormat = FmdlVertexDatumFormat.tripleFloat32 THEN Concat(value)
    ELSE IF datumFormat \in {FmdlVertexDatumFormat.quadFloat16,
                             FmdlVertexDatumFormat.doubleFloat16}
    THEN Concat([i \in DOMAIN value |-> PackUInt(encodeFloat16(value[i]), 2)])
    ELSE IF datumFormat = FmdlVertexDatumFormat.quadFloat8
    THEN [i \in DOMAIN value |-> EncodeFloat8(value[i])]
    ELSE value

\* pack_into(format, buffer, position, ...) for the bytes of the values
PackInto(buffer, position, bytes) ==
    [i \in DOMAIN buffer |->
        IF i > position /\ i <= position + Len(bytes) THEN bytes[i - position] ELSE buffer[i]]

RECURSIVE AddVertexData(_, _, _, _, _, _, _)
\* "for (bufferID, datumType, datumFormat, offset) in formatEntries" from the
\* k-th entry on, for one vertex: [err, buffers]
AddVertexData(vertex, vertexIndex, formatEntries, k, entrySizes, sortedBones, buffers) ==
    IF k > Len(formatEntries) THEN [err |-> NoError, buffers |-> buffers]
    ELSE
    LET entry == formatEntries[k]
        value == DatumValue(vertex, entry.datumType, sortedBones)
        position == entrySizes[entry.bufferID] * vertexIndex + entry.offset
    IN
    IF entry.datumType \notin Range(FmdlVertexDatumType)
    THEN [err |-> InvalidFmdl("Unexpected vertex datum type"), buffers |-> buffers]
    ELSE IF entry.datumFormat # ExpectedFormat(entry.datumType)
    THEN [err |-> InvalidFmdl("Unexpected format for vertex data"), buffers |-> buffers]
    ELSE IF value.err # NoError THEN [err |-> value.err, buffers |-> buffers]
    ELSE AddVertexData(vertex, vertexIndex, formatEntries, k + 1, entrySizes, sortedBones,
             [buffers EXCEPT ![entry.bufferID] =
                 PackInto(@, position, EncodeDatum(entry.datumFormat, value.val))])

RECURSIVE AddVerticesFrom(_, _, _, _, _, _, _)
\* "for vertexIndex in range(len(vertices))" from vertexIndex on
AddVerticesFrom(vertices, vertexIndex, formatEntries, entrySizes, boneGroupIndices, sortedBones, buffers) ==
    IF vertexIndex >= Len(vertices) THEN [err |-> NoError, buffers |-> buffers]
    ELSE
    Then(IF At(vertices, vertexIndex).boneMapping # None
         THEN SortedBones(The(At(vertices, vertexIndex).boneMapping), boneGroupIndices)
         ELSE Ok(<<>>),
         LAMBDA bonesHere :
    With(IF At(vertices, vertexIndex).boneMapping # None
         THEN Some(bonesHere.val) ELSE sortedBones,
         LAMBDA nowSorted :
    Then(AddVertexData(At(vertices, vertexIndex), vertexIndex, formatEntries, 1,
                       entrySizes, nowSorted, buffers),
         LAMBDA written :
    AddVerticesFrom(vertices, vertexIndex + 1, formatEntries, entrySizes,
                    boneGroupIndices, nowSorted, written.buffers))))

\* gives [err, vertexPositionBuffer, vertexDataBuffer]: the two buffers
\* afterwards (vertexIndices gives the k-th vertex the index k)
addVertices(vertices, formatEntries, positionBufferEntrySize, dataBufferEntrySize, boneGroupIndices, vertexPositionBuffer, vertexDataBuffer) ==
    Then(AddVerticesFrom(vertices, 0, formatEntries,
             [b \in 0..1 |-> IF b = 0 THEN positionBufferEntrySize
                             ELSE dataBufferEntrySize],
             boneGroupIndices, None,
             [b \in 0..1 |-> IF b = 0
                             THEN Zeros(Len(vertices) * positionBufferEntrySize)
                             ELSE Zeros(Len(vertices) * dataBufferEntrySize)]),
         LAMBDA filled :
    [err |-> NoError,
     vertexPositionBuffer |-> vertexPositionBuffer \o Pad16(filled.buffers[0]),
     vertexDataBuffer |-> vertexDataBuffer \o Pad16(filled.buffers[1])])

\* addFaces returning the number of faces in the buffer so far
addFacesCountingFaces(faces, vertexCount, faceBuffer) ==
    IF \E i \in DOMAIN faces : \E p \in 1..3 : ~(faces[i][p] < vertexCount)
    THEN [err |-> Raise("KeyError", "vertex"), faceBuffer |-> faceBuffer, ID |-> 0]
    ELSE [err |-> NoError,
          faceBuffer |-> faceBuffer \o Concat([i \in DOMAIN faces |->
                             PackUInt(faces[i][1], 2) \o PackUInt(faces[i][2], 2)
                                 \o PackUInt(faces[i][3], 2)]),
          ID |-> Len(faceBuffer) \div 6]

\* gives [err, faceBuffer, ID]; a face is the positions of its three
\* vertices in the list of vertices of the mesh
addFaces(faces, vertexCount, faceBuffer) ==
    IF \E i \in DOMAIN faces : \E p \in 1..3 : ~(faces[i][p] < vertexCount)
    THEN [err |-> Raise("KeyError", "vertex"), faceBuffer |-> faceBuffer, ID |-> 0]
    ELSE [err |-> NoError,
          faceBuffer |-> faceBuffer \o Concat([i \in DOMAIN faces |->
                             PackUInt(faces[i][1], 2) \o PackUInt(faces[i][2], 2)
                                 \o PackUInt(faces[i][3], 2)]),
          ID |-> Len(faceBuffer) \div 2]

\* the four bytes of the float 1.0 in pack('< f', 1.0)
FloatOne == <<0, 0, 128, 63>>

\* pack('< III 4x', 1 if last else 0, length, offset)
addBufferOffset(fmdl, last, length, offset) ==
    AddBlock(fmdl, 14, PackUInt(IF last THEN 1 ELSE 0, 4) \o PackUInt(length, 4)
                           \o PackUInt(offset, 4) \o Zeros(4))

\* pack('< I fff', levels, 1.0, 1.0, 1.0)
addLevelsOfDetail(fmdl, levels) ==
    AddBlock(fmdl, 16, PackUInt(levels, 4) \o FloatOne \o FloatOne \o FloatOne)

\* pack('< II', 0, len(faces) * 3)
addFaceIndex(fmdl, faces) ==
    AddBlock(fmdl, 17, PackUInt(0, 4) \o PackUInt(Len(faces) * 3, 4))

\* pack('< BB 2x HHHH 4x IIQ 16x', ...)
MeshRecord(alphaEnum, shadowEnum, materialInstanceID, boneGroupID, meshFormatAssignmentID, vertexCount, firstFaceVertexID, faceVertexCount, firstFaceIndexID) ==
    <<alphaEnum, shadowEnum, 0, 0>>
        \o PackUInt(materialInstanceID, 2) \o PackUInt(boneGroupID, 2)
        \o PackUInt(meshFormatAssignmentID, 2) \o PackUInt(vertexCount, 2) \o Zeros(4)
        \o PackUInt(firstFaceVertexID, 4) \o PackUInt(faceVertexCount, 4)
        \o PackUInt(firstFaceIndexID, 8) \o Zeros(16)

\* gives [err, fmdl, ID, vertexPositionBuffer, vertexDataBuffer, faceBuffer];
\* levelsOfDetail is 1 in the only call
addMesh(fmdl, mesh, materialInstanceID, vertexPositionBuffer, vertexDataBuffer, faceBuffer) ==
    Then(addBoneGroup(fmdl, mesh.boneGroup), LAMBDA boneGroup :
    Then(addMeshFormatAssignment(boneGroup.fmdl, mesh.vertexFields,
             Len(vertexPositionBuffer), Len(vertexDataBuffer)),
         LAMBDA format :
    Then(addVertices(mesh.vertices, format.formatEntries,
             format.positionBufferEntrySize, format.dataBufferEntrySize,
             boneGroup.boneGroupIndices, vertexPositionBuffer, vertexDataBuffer),
         LAMBDA vertices :
    Then(NewID(format.fmdl, 17), LAMBDA firstFaceIndexID :
    Then(addFaceIndex(firstFaceIndexID.fmdl, mesh.faces), LAMBDA faceIndex :
    Then(addFaces(mesh.faces, Len(mesh.vertices), faceBuffer), LAMBDA faces :
    Then(AddBlock(faceIndex.fmdl, 3,
             MeshRecord(mesh.alphaEnum, mesh.shadowEnum, materialInstanceID,
                 boneGroup.ID, format.ID, Len(mesh.vertices), faces.ID,
                 Len(mesh.faces) * 3, firstFaceIndexID.ID)),
         LAMBDA added :
    [err |-> NoError, fmdl |-> added.fmdl, ID |-> added.ID,
     vertexPositionBuffer |-> vertices.vertexPositionBuffer,
     vertexDataBuffer |-> vertices.vertexDataBuffer,
     faceBuffer |-> faces.faceBuffer])))))))

RECURSIVE StoreMeshesFrom(_, _, _, _, _, _, _)
\* "for mesh in meshes" from the i-th mesh on; gives addMesh's record with
\* ID the list meshIndices
StoreMeshesFrom(fmdl, meshList, i, meshIndices, vertexPositionBuffer, vertexDataBuffer, faceBuffer) ==
    IF i > Len(meshList)
    THEN [err |-> NoError, fmdl |-> fmdl, ID |-> meshIndices,
          vertexPositionBuffer |-> vertexPositionBuffer,
          vertexDataBuffer |-> vertexDataBuffer, faceBuffer |-> faceBuffer]
    ELSE Then(addMesh(fmdl, meshList[i], meshList[i].materialInstance,
                      vertexPositionBuffer, vertexDataBuffer, faceBuffer),
              LAMBDA added :
         StoreMeshesFrom(added.fmdl, meshList, i + 1, Append(meshIndices, added.ID),
             added.vertexPositionBuffer, added.vertexDataBuffer, added.faceBuffer))

\* storeMeshes with every buffer offset 0
storeMeshesFromZero(fmdl, meshList) ==
    Then(addLevelsOfDetail(fmdl, 1), LAMBDA levels :
    Then(StoreMeshesFrom(levels.fmdl, meshList, 1, <<>>, <<>>, <<>>, <<>>),
         LAMBDA stored :
    Then(addBufferOffset(stored.fmdl, FALSE, Len(stored.vertexPositionBuffer), 0),
         LAMBDA first :
    Then(addBufferOffset(first.fmdl, FALSE, Len(stored.vertexDataBuffer), 0),
         LAMBDA second :
    Then(addBufferOffset(second.fmdl, TRUE, Len(stored.faceBuffer), 0),
         LAMBDA third :
    Done([third.fmdl EXCEPT !.seg1 =
             DictSet(third.fmdl.seg1, 2,
                 stored.vertexPositionBuffer \o stored.vertexDataBuffer
                     \o stored.faceBuffer)],
         stored.ID))))))

\* gives [err, fmdl, ID]: ID is meshIndices, the ID of every mesh in order
storeMeshes(fmdl, meshList) ==
    Then(addLevelsOfDetail(fmdl, 1), LAMBDA levels :
    Then(StoreMeshesFrom(levels.fmdl, meshList, 1, <<>>, <<>>, <<>>, <<>>),
         LAMBDA stored :
    Then(addBufferOffset(stored.fmdl, FALSE, Len(stored.vertexPositionBuffer), 0),
         LAMBDA first :
    Then(addBufferOffset(first.fmdl, FALSE, Len(stored.vertexDataBuffer),
                         Len(stored.vertexPositionBuffer)),
         LAMBDA second :
    Then(addBufferOffset(second.fmdl, TRUE, Len(stored.faceBuffer),
             Len(stored.vertexPositionBuffer) + Len(stored.vertexDataBuffer)),
         LAMBDA third :
    Done([third.fmdl EXCEPT !.seg1 =
             DictSet(third.fmdl.seg1, 2,
                 stored.vertexPositionBuffer \o stored.vertexDataBuffer
                     \o stored.faceBuffer)],
         stored.ID))))))

RECURSIVE MergeAssignments(_, _, _, _)
\* "for mesh in meshGroup.meshes" of addMeshGroup from the i-th mesh on:
\* the list meshGroupAssignments of (firstMeshID, meshCount)
MergeAssignments(groupMeshes, meshIndices, i, meshGroupAssignments) ==
    IF i > Len(groupMeshes) THEN meshGroupAssignments
    ELSE
    LET meshID == At(meshIndices, groupMeshes[i])
        n == Len(meshGroupAssignments)
    IN  MergeAssignments(groupMeshes, meshIndices, i + 1,
            IF n > 0 /\ meshID = meshGroupAssignments[n][1] + meshGroupAssignments[n][2]
            THEN [meshGroupAssignments EXCEPT ![n] = <<@[1], @[2] + 1>>]
            ELSE Append(meshGroupAssignments, <<meshID, 1>>))

addMeshGroupAssignment(fmdl, meshGroupID, firstMeshID, meshCount, boundingBoxID) ==
    AddBlock(fmdl, 2, MeshGroupAssignmentRecord(meshGroupID, firstMeshID, meshCount,
                                                boundingBoxID))

RECURSIVE AddAssignmentsFrom(_, _, _, _, _)
\* "for (firstMeshID, meshCount) in meshGroupAssignments" from the i-th on
AddAssignmentsFrom(fmdl, meshGroupID, meshGroupAssignments, boundingBoxID, i) ==
    IF i > Len(meshGroupAssignments) THEN fmdl
    ELSE AddAssignmentsFrom(
             addMeshGroupAssignment(fmdl, meshGroupID, meshGroupAssignments[i][1],
                 meshGroupAssignments[i][2], boundingBoxID).fmdl,
             meshGroupID, meshGroupAssignments, boundingBoxID, i + 1)

\* meshGroupIndices is the dict of storeMeshGroups, as the list of the
\* indices of the mesh groups of the list in order
addMeshGroup(fmdl, meshGroup, meshGroupIndices, meshIndices) ==
    IF meshGroup.parent # None /\ ~(The(meshGroup.parent) < Len(meshGroupIndices))
    THEN Failed(Raise("KeyError", "mesh group"))
    ELSE
    Then(addString(fmdl, meshGroup.name), LAMBDA name :
    Then(AddBlock(name.fmdl, 1,
             MeshGroupRecord(name.ID, meshGroup.visible,
                 IF meshGroup.parent = None THEN -1
                 ELSE At(meshGroupIndices, The(meshGroup.parent)))),
         LAMBDA group :
    Then(addBoundingBox(group.fmdl, meshGroup.boundingBox), LAMBDA box :
    IF \E i \in DOMAIN meshGroup.meshes : ~(meshGroup.meshes[i] < Len(meshIndices))
    THEN Failed(Raise("KeyError", "mesh"))
    ELSE
    With(MergeAssignments(meshGroup.meshes, meshIndices, 1, <<>>),
         LAMBDA meshGroupAssignments :
    Done(IF meshGroupAssignments = <<>>
         THEN addMeshGroupAssignment(box.fmdl, group.ID, 0, 0, box.ID).fmdl
         ELSE AddAssignmentsFrom(box.fmdl, group.ID, meshGroupAssignments, box.ID, 1),
         group.ID)))))

RECURSIVE StoreMeshGroupsFrom(_, _, _, _, _)
\* "for meshGroup in meshGroups: addMeshGroup(...)" from the i-th group on
StoreMeshGroupsFrom(fmdl, groups, meshGroupIndices, meshIndices, i) ==
    IF i > Len(groups) THEN Done(fmdl, 0)
    ELSE Then(addMeshGroup(fmdl, groups[i], meshGroupIndices, meshIndices), LAMBDA added :
         StoreMeshGroupsFrom(added.fmdl, groups, meshGroupIndices, meshIndices, i + 1))

\* the first loop gives the k-th mesh group of the list the index
\* meshGroupIndex + k
storeMeshGroups(fmdl, groups, meshIndices) ==
    With(NewID(fmdl, 1), LAMBDA meshGroupIndex :
    StoreMeshGroupsFrom(meshGroupIndex.fmdl, groups,
        [k \in DOMAIN groups |-> meshGroupIndex.ID + k - 1], meshIndices, 1))

\* pack('< ffff IIIi 96x', 0.0, 1.0, 1.0, 1.0, 0, 0, 0, -1)
Block20 ==
    Zeros(4) \o FloatOne \o FloatOne \o FloatOne \o Zeros(12) \o <<255, 255, 255, 255>>
        \o Zeros(96)

\* FmdlFile.writeFile up to the container's writeFile: [err, fmdl, ID], fmdl
\* the container that is then written
BuildContainer(boneList, instances, meshList, groups) ==
    Then(addString(NewContainer, <<>>), LAMBDA withString :
    Then(storeBones(withString.fmdl, boneList), LAMBDA withBones :
    Then(storeMaterialInstances(withBones.fmdl, instances), LAMBDA withInstances :
    Then(storeMeshes(withInstances.fmdl, meshList), LAMBDA withMeshes :
    Then(storeMeshGroups(withMeshes.fmdl, groups, withMeshes.ID), LAMBDA withGroups :
    Then(AddBlock(withGroups.fmdl, 18, Zeros(8)), LAMBDA with18 :
    Then(AddBlock(with18.fmdl, 20, Block20), LAMBDA with20 :
    Done([with20.fmdl EXCEPT !.seg1 = DictSet(with20.fmdl.seg1, 1, <<>>)], 0))))))))

\* FmdlFile.readFile after the container was read: [err, val], val the four
\* lists that are assigned to the FmdlFile
ParseContainer(fmdl) ==
    Then(parseStrings(fmdl), LAMBDA strings :
    With(parseBoundingBoxes(fmdl), LAMBDA boundingBoxes :
    Then(parseBones(fmdl, strings.val, boundingBoxes.val), LAMBDA boneList :
    Then(parseMaterialInstances(fmdl, strings.val), LAMBDA instances :
    Then(parseMeshes(fmdl, boneList.val, instances.val), LAMBDA meshList :
    Then(parseMeshGroups(fmdl, strings.val, boundingBoxes.val, Len(meshList.val)),
         LAMBDA groups :
    Ok([bones |-> boneList.val, materialInstances |-> instances.val,
        meshes |-> meshList.val, meshGroups |-> groups.val])))))))

(***************************************************************************)
(* The parent passes of parseBones and parseMeshGroups, step by step       *)
(***************************************************************************)
MaxNodes == 4

\* the signed parent IDs a block of n records may carry: no parent (-1 and
\* another negative value), every node of the list, and one ID beyond the list
ParentIDLists ==
    UNION {[1..n -> (-2)..n] : n \in 0..MaxNodes}

ParentsInit ==
    /\ ContainerIdle
    /\ ModelIdle
    /\ args \in ParentIDLists
    /\ ret = <<>>
    /\ phase = "new"

\* the second loop: resolve the parent IDs
ParentsResolve ==
    /\ phase = "new"
    /\ LET resolved == ResolveParents(args, "Invalid parent ID") IN
       IF resolved.err # NoError
       THEN /\ ret' = [err |-> resolved.err]
            /\ phase' = "failed"
       ELSE /\ ret' = [parents |-> resolved.val, st |-> LoopCheckStart(resolved.val)]
            /\ phase' = "walking"
    /\ UNCHANGED <<containerVars, modelVars, args>>

\* the third loop: one step of the walk up the ancestor chain
ParentsWalk ==
    /\ phase = "walking"
    /\ ret.st.status = "walking"
    /\ ret' = [ret EXCEPT !.st = LoopCheckStep(ret.parents, ret.st)]
    /\ UNCHANGED <<containerVars, modelVars, args, phase>>

\* the third loop has raised, or has ended and the function returns
ParentsReturn ==
    /\ phase = "walking"
    /\ ret.st.status # "walking"
    /\ phase' = ret.st.status
    /\ UNCHANGED <<containerVars, modelVars, callVars>>

ParentsNext == ParentsResolve \/ ParentsWalk \/ ParentsReturn

ParentsSpec == ParentsInit /\ [][ParentsNext]_vars /\ WF_vars(ParentsNext)

\* the k-th ancestor of a node (None when the chain ends before)
RECURSIVE Ancestor(_, _, _)
Ancestor(parents, ID, k) ==
    IF k = 0 THEN Some(ID)
    ELSE IF At(parents, ID) = None THEN None
    ELSE Ancestor(parents, The(At(parents, ID)), k - 1)

\* some node is its own ancestor
HasCycle(parents) ==
    \E ID \in 0..(Len(parents) - 1) : \E k \in 1..Len(parents) :
        Ancestor(parents, ID, k) = Some(ID)

\* from every node a node without parent is reached within Len(parents) steps
AllChainsEnd(parents) ==
    \A ID \in 0..(Len(parents) - 1) : \E k \in 0..(Len(parents) - 1) :
        /\ Ancestor(parents, ID, k) # None
        /\ At(parents, The(Ancestor(parents, ID, k))) = None

C4_Safety ==
    /\ phase = "raised" => HasCycle(ret.parents)
    /\ phase = "done" => ~HasCycle(ret.parents) /\ AllChainsEnd(ret.parents)
    /\ phase = "walking" /\ ret.st.status = "raised" => HasCycle(ret.parents)
    /\ phase = "walking" /\ ret.st.status = "done" => ~HasCycle(ret.parents)

C4_Terminated == phase \in {"failed", "raised", "done"}

\* C4: the parent passes terminate on every list of parent IDs; when all
\* parent IDs resolve, the loop check raises (ParentCycle) if and only if the
\* parent links contain a cycle, and when it does not raise, following the
\* parent links from any node reaches a node without parent.
C4_ParentCycle == [](C4_Safety) /\ <>(C4_Terminated)

\* C4 witness: the check has raised on a walk started from node 0, which is
\* not itself on the cycle it runs into.
C4_Witness ==
    /\ phase = "raised"
    /\ ret.st.i = 0
    /\ \A k \in 1..Len(ret.parents) : Ancestor(ret.parents, 0, k) # Some(0)
    /\ Len(ret.parents) >= 3

(***************************************************************************)
(* parseMeshGroups on the mesh group assignments of a file                 *)
(***************************************************************************)
MaxMeshes == 3
MaxGroups == 2
MaxAssignmentRecords == 2

AssignmentInputs ==
    [meshGroupID : 0..MaxGroups, firstMeshIndex : 0..MaxMeshes,
     meshCount : 0..(MaxMeshes - 1), boundingBoxID : 0..1]

MeshGroupInputs ==
    [meshCount : 0..MaxMeshes, groupCount : 1..MaxGroups,
     records : UNION {[1..n -> AssignmentInputs] : n \in 0..MaxAssignmentRecords}]

\* the container of a file with a.groupCount root mesh groups named by string
\* 0 and the assignment records a.records
MeshGroupsFile(a) ==
    [NewContainer EXCEPT !.seg0 =
        (1 :> [i \in 1..a.groupCount |-> MeshGroupRecord(0, TRUE, -1)])
        @@ (2 :> [k \in DOMAIN a.records |->
                    MeshGroupAssignmentRecord(a.records[k].meshGroupID,
                        a.records[k].firstMeshIndex, a.records[k].meshCount,
                        a.records[k].boundingBoxID)])]

TwoBoundingBoxes == [i \in 1..2 |-> [oid |-> i - 1, min |-> Zeros(16), max |-> Zeros(16)]]

MeshGroupsInit ==
    /\ ContainerIdle /\ ModelIdle
    /\ args \in MeshGroupInputs
    /\ ret = <<>>
    /\ phase = "new"

ParseMeshGroups ==
    /\ phase = "new"
    /\ ret' = parseMeshGroups(MeshGroupsFile(args), <<<<103>>>>, TwoBoundingBoxes,
                              args.meshCount)
    /\ phase' = "parsed"
    /\ UNCHANGED <<containerVars, modelVars, args>>

MeshGroupsNext == ParseMeshGroups

MeshGroupsSpec == MeshGroupsInit /\ [][MeshGroupsNext]_vars

\* the number of assignment ranges of the input that cover mesh index m
Coverage(a, m) ==
    Cardinality({k \in DOMAIN a.records :
        /\ a.records[k].firstMeshIndex <= m
        /\ m < a.records[k].firstMeshIndex + a.records[k].meshCount})

\* the number of places mesh m has in the meshes lists of the mesh groups
Occurrences(groups, m) ==
    Cardinality({<<g, k>> \in (DOMAIN groups) \X (1..MaxMeshes) :
        k \in DOMAIN groups[g].meshes /\ groups[g].meshes[k] = m})

\* every reference of every assignment record is in range
RecordsInRange(a) ==
    \A k \in DOMAIN a.records :
        /\ a.records[k].meshGroupID < a.groupCount
        /\ a.records[k].firstMeshIndex + a.records[k].meshCount <= a.meshCount

\* no mesh group is given two bounding boxes
OneBoundingBoxEach(a) ==
    \A k, l \in DOMAIN a.records :
        a.records[k].meshGroupID = a.records[l].meshGroupID
            => a.records[k].boundingBoxID = a.records[l].boundingBoxID

\* C3: when parseMeshGroups succeeds every mesh is in the meshes list of
\* exactly one mesh group; a mesh index covered by no assignment range, or
\* by two, makes it raise InvalidFmdl, with the message of the unassigned
\* mesh or of the double assignment when the records have no earlier defect
C3_ExactlyOneMeshGroup ==
    phase = "parsed" =>
        /\ ret.err = NoError =>
              \A m \in 0..(args.meshCount - 1) : Occurrences(ret.val, m) = 1
        /\ (\E m \in 0..(args.meshCount - 1) : Coverage(args, m) = 0)
              => ret.err.exc = "InvalidFmdl"
        /\ (\E m \in 0..(args.meshCount - 1) : Coverage(args, m) >= 2)
              => ret.err.exc = "InvalidFmdl"
        /\ ( /\ RecordsInRange(args) /\ OneBoundingBoxEach(args)
             /\ \A m \in 0..(args.meshCount - 1) : Coverage(args, m) <= 1
             /\ \E m \in 0..(args.meshCount - 1) : Coverage(args, m) = 0 )
              => ret.err = InvalidFmdl("Mesh not assigned to mesh group")
        /\ ( /\ RecordsInRange(args) /\ OneBoundingBoxEach(args)
             /\ \E m \in 0..(args.meshCount - 1) : Coverage(args, m) >= 2 )
              => ret.err = InvalidFmdl(
                   "Invalid double mesh group assignment: mesh already assigned")

\* two meshes read into two different mesh groups
C3_Witness ==
    /\ phase = "parsed" /\ ret.err = NoError
    /\ args.meshCount = 2 /\ Len(ret.val) = 2
    /\ ret.val[1].meshes = <<1>> /\ ret.val[2].meshes = <<0>>

\* a mesh covered by two ranges, and one covered by none, both refused
C3_WitnessRefused ==
    /\ phase = "parsed" /\ RecordsInRange(args)
    /\ \E m \in 0..(args.meshCount - 1) : Coverage(args, m) >= 2
    /\ \E m \in 0..(args.meshCount - 1) : Coverage(args, m) = 0

(***************************************************************************)
(* parseMaterialInstances on the material blocks of a file                 *)
(***************************************************************************)
MaxAssignments == 3

\* two strings, "a" and "b": string ID 2 is out of range
TwoStrings == <<<<97>>, <<98>>>>

AssignmentRecordInputs == [name : 0..2, referenceID : 0..1]

MaterialInputs ==
    [shaderStringID : {0, 2},
     texture : {<<0, 1>>, <<2, 1>>, <<0, 2>>},
     assignments : UNION {[1..n -> AssignmentRecordInputs] : n \in 0..MaxAssignments},
     materialID : 0..1,
     textureCount : 0..2, materialParameterCount : 0..2,
     firstTextureID : 0..1, firstMaterialParameterID : 0..1]

\* the container of a file with one material, one texture, one group of
\* material parameters, the assignment records a.assignments and one
\* material instance
MaterialsFile(a) ==
    [NewContainer EXCEPT
        !.seg0 = (4 :> <<MaterialInstanceRecord(0, a.materialID, a.textureCount,
                            a.materialParameterCount, a.firstTextureID,
                            a.firstMaterialParameterID)>>)
              @@ (6 :> <<TextureRecord(a.texture[1], a.texture[2])>>)
              @@ (7 :> [k \in DOMAIN a.assignments |->
                          TextureMaterialParameterAssignmentRecord(
                              a.assignments[k].name, a.assignments[k].referenceID)])
              @@ (8 :> <<MaterialRecord(a.shaderStringID, 1)>>),
        !.seg1 = (0 :> Zeros(16))]

MaterialsInit ==
    /\ ContainerIdle /\ ModelIdle
    /\ args \in MaterialInputs
    /\ ret = <<>>
    /\ phase = "new"

ParseMaterialInstances ==
    /\ phase = "new"
    /\ ret' = parseMaterialInstances(MaterialsFile(args), TwoStrings)
    /\ phase' = "parsed"
    /\ UNCHANGED <<containerVars, modelVars, args>>

MaterialsNext == ParseMaterialInstances

MaterialsSpec == MaterialsInit /\ [][MaterialsNext]_vars

\* the string IDs, material ID and assignment IDs the instance of the input
\* reaches are all in range, and so are the IDs of those assignments
MaterialReferencesInRange(a) ==
    /\ a.shaderStringID < 2 /\ a.texture[1] < 2 /\ a.texture[2] < 2
    /\ \A k \in DOMAIN a.assignments : a.assignments[k].name < 2
    /\ a.materialID < 1
    /\ a.firstTextureID + a.textureCount <= Len(a.assignments)
    /\ a.firstMaterialParameterID + a.materialParameterCount <= Len(a.assignments)
    /\ \A k \in (a.firstTextureID + 1)..(a.firstTextureID + a.textureCount) :
           a.assignments[k].referenceID < 1
    /\ \A k \in (a.firstMaterialParameterID + 1)
                    ..(a.firstMaterialParameterID + a.materialParameterCount) :
           a.assignments[k].referenceID < 1

\* two of the assignments first .. first + count - 1 carry the same name
NameReused(a, first, count) ==
    \E k, l \in (first + 1)..(first + count) :
        k # l /\ a.assignments[k].name = a.assignments[l].name

\* the names of a list of (name, value) pairs are pairwise distinct
DistinctNames(pairs) ==
    \A k, l \in DOMAIN pairs : k # l => pairs[k][1] # pairs[l][1]

\* C6: parseMaterialInstances raises InvalidFmdl for the duplicate when two
\* texture assignments of one instance carry the same role name or two of
\* its parameter assignments the same parameter name; every instance it
\* returns has pairwise distinct role names and parameter names
C6_DuplicateNames ==
    phase = "parsed" =>
        /\ ( /\ MaterialReferencesInRange(args)
             /\ NameReused(args, args.firstTextureID, args.textureCount) )
              => ret.err = InvalidFmdl("Duplicate texture name used by material instance")
        /\ ( /\ MaterialReferencesInRange(args)
             /\ ~NameReused(args, args.firstTextureID, args.textureCount)
             /\ NameReused(args, args.firstMaterialParameterID, args.materialParameterCount) )
              => ret.err = InvalidFmdl(
                   "Duplicate material parameters used by material instance")
        /\ ret.err = NoError =>
              \A i \in DOMAIN ret.val :
                  /\ DistinctNames(ret.val[i].textures)
                  /\ DistinctNames(ret.val[i].parameters)

\* C7: a string ID, material ID, assignment ID, texture ID or material
\* parameter ID out of range makes parseMaterialInstances raise InvalidFmdl
C7_InvalidReference ==
    (phase = "parsed" /\ ~MaterialReferencesInRange(args))
        => ret.err.exc = "InvalidFmdl"

(***************************************************************************)
(* parseFaces on the face buffer of a file                                 *)
(***************************************************************************)
MaxVertices == 3
MaxFaces == 2

FaceInputs ==
    [vertexCount : 0..MaxVertices,
     vertexBufferOffset : {0, 4},
     firstFaceVertexIndex : {0, 3},
     faceVertexCount : {3 * n : n \in 0..MaxFaces},
     triangles : UNION {[1..n -> (0..MaxVertices) \X (0..MaxVertices) \X (0..MaxVertices)]
                           : n \in 1..MaxFaces}]

\* a vertex block that holds, from a.vertexBufferOffset on, the triangles
FacesFile(a) ==
    [NewContainer EXCEPT !.seg1 =
        (2 :> Zeros(a.vertexBufferOffset)
              \o Concat([k \in DOMAIN a.triangles |->
                     PackUInt(a.triangles[k][1], 2) \o PackUInt(a.triangles[k][2], 2)
                         \o PackUInt(a.triangles[k][3], 2)]))]

FacesInit ==
    /\ ContainerIdle /\ ModelIdle
    /\ args \in FaceInputs
    /\ ret = <<>>
    /\ phase = "new"

ParseFaces ==
    /\ phase = "new"
    /\ ret' = parseFaces(FacesFile(args), args.vertexBufferOffset,
                         args.firstFaceVertexIndex, args.faceVertexCount,
                         args.vertexCount)
    /\ phase' = "parsed"
    /\ UNCHANGED <<containerVars, modelVars, args>>

FacesNext == ParseFaces

FacesSpec == FacesInit /\ [][FacesNext]_vars

\* the triangles of the input that parseFaces is asked to read
TrianglesRead(a) ==
    {k \in 1..MaxFaces :
        /\ k - 1 >= a.firstFaceVertexIndex \div 3
        /\ k - 1 < (a.firstFaceVertexIndex + a.faceVertexCount) \div 3}

\* C5: parseFaces raises InvalidFmdl when any of the three indices of a
\* triangle it reads is not smaller than the number of vertices, whichever
\* position it is in; no face it returns has an index outside the vertices
C5_InvalidFaceReference ==
    phase = "parsed" =>
        /\ ( /\ TrianglesRead(args) \subseteq DOMAIN args.triangles
             /\ \E k \in TrianglesRead(args) : \E p \in 1..3 :
                    ~(args.triangles[k][p] < args.vertexCount) )
              => ret.err = InvalidFmdl("Invalid vertex referenced by face")
        /\ ret.err = NoError =>
              \A k \in DOMAIN ret.val : \A p \in 1..3 :
                  ret.val[k][p] < args.vertexCount

\* no face with an index outside the vertices is returned
C5_NoBadFace ==
    (phase = "parsed" /\ ret.err = NoError) =>
        \A k \in DOMAIN ret.val : \A p \in 1..3 : ret.val[k][p] < args.vertexCount

(***************************************************************************)
(* An FmdlFile that is filled by its client, written and read              *)
(***************************************************************************)
MaxBones == 2
MaxModelMeshes == 1
MaxModelGroups == 2

\* What the client of an FmdlFile puts into it: boneCount bones (of two, the
\* first has the second as its parent), meshCount meshes of one kind, all in
\* the first of groupCount mesh groups (of two, the first has the second as
\* its parent).  The kinds: "skinned" has a bone group of the first bone and
\* a bone mapping in every vertex; "boneless" has a bone group of no bones
\* and no bone mapping; "unskinned" has no bone group and no bone mapping.
ModelInputs ==
    [boneCount : 0..MaxBones, meshCount : 0..MaxModelMeshes,
     groupCount : 0..MaxModelGroups, kind : {"skinned", "boneless", "unskinned"},
     hasNormal : BOOLEAN, uv : {"none", "distinct", "aliased"}]

\* the inputs that name different models and models that can be built: no
\* choice of mesh fields without a mesh, a bone for a skinned mesh
IsModelInput(a) ==
    /\ a.kind = "skinned" => a.boneCount > 0
    /\ a.meshCount = 0 => a.kind = "boneless" /\ ~a.hasNormal /\ a.uv = "none"

Half(k) == parseFloat16(k * 1024 + 14336)

ModelBones(a) ==
    LET parents == [i \in 1..a.boneCount |->
                       IF i = 1 /\ a.boneCount > 1 THEN Some(1) ELSE None]
    IN  [i \in 1..a.boneCount |->
            [name |-> <<97 + i>>,
             boundingBox |-> [oid |-> i - 1, min |-> Zeros(16), max |-> Zeros(15) \o <<i>>],
             localPosition |-> Zeros(16),
             globalPosition |-> <<i>> \o Zeros(15),
             parent |-> parents[i],
             children |-> Children(parents, i - 1)]]

ModelMaterialInstances(a) ==
    IF a.meshCount = 0 THEN <<>>
    ELSE <<[name |-> <<109>>, technique |-> <<116>>, shader |-> <<115>>,
            textures |-> <<<<<<114>>, [filename |-> <<102>>, directory |-> <<100>>]>>>>,
            parameters |-> <<<<<<112>>, Zeros(15) \o <<7>>>>>>]>>

ModelVertexFields(a) ==
    [hasNormal |-> a.hasNormal, hasTangent |-> FALSE, hasColor |-> FALSE,
     hasBoneMapping |-> a.kind = "skinned",
     uvCount |-> IF a.uv = "none" THEN 0 ELSE 2,
     uvEqualities |-> [i \in 0..(IF a.uv = "none" THEN -1 ELSE 1) |->
                          IF a.uv = "aliased" THEN <<1 - i>> ELSE <<>>]]

ModelVertex(a, m, v) ==
    [position |-> Some(<<<<m, v, 0, 0>>, Zeros(4), FloatOne>>),
     normal |-> IF a.hasNormal THEN Some(<<Half(1), Half(v), Half(0), Half(1)>>) ELSE None,
     tangent |-> None,
     color |-> None,
     uv |-> IF a.uv = "none" THEN <<>>
            ELSE IF a.uv = "aliased" THEN <<<<Half(v), Half(1)>>, <<Half(v), Half(1)>>>>
            ELSE <<<<Half(v), Half(1)>>, <<Half(2), Half(v)>>>>,
     boneMapping |-> IF a.kind = "skinned" THEN Some(<<<<0, ByteRatio(255)>>>>) ELSE None]

ModelMeshes(a) ==
    [m \in 1..a.meshCount |->
        [vertices |-> [v \in 1..3 |-> ModelVertex(a, m, v)],
         faces |-> <<<<0, 1, 2>>>>,
         boneGroup |-> IF a.kind = "skinned" THEN Some([bones |-> <<0>>])
                       ELSE IF a.kind = "boneless" THEN Some([bones |-> <<>>])
                       ELSE None,
         materialInstance |-> 0,
         alphaEnum |-> 0,
         shadowEnum |-> m,
         vertexFields |-> ModelVertexFields(a)]]

ModelMeshGroups(a) ==
    LET parents == [i \in 1..a.groupCount |->
                       IF i = 1 /\ a.groupCount > 1 THEN Some(1) ELSE None]
    IN  [i \in 1..a.groupCount |->
            [name |-> <<103, 48 + i>>,
             visible |-> i = 1,
             parent |-> parents[i],
             children |-> Children(parents, i - 1),
             meshes |-> IF i = 1 THEN [m \in 1..a.meshCount |-> m - 1] ELSE <<>>,
             boundingBox |-> Some([oid |-> i - 1, min |-> Zeros(16),
                                   max |-> Zeros(15) \o <<i>>])]]

\* blocks that a file of another producer can be without
DroppedBlocks == {{2}, {5}}

\* the container writeFile builds for the input, without the dropped blocks
CraftedContainer(a, dropped) ==
    LET built == BuildContainer(ModelBones(a), ModelMaterialInstances(a),
                     ModelMeshes(a), ModelMeshGroups(a)).fmdl
    IN  [built EXCEPT !.seg0 = [id \in DOMAIN built.seg0 \ dropped |-> built.seg0[id]]]

FileInit ==
    /\ ContainerIdle /\ ModelIdle /\ CallIdle
    /\ phase = "new"

\* the client fills the four fields of a new FmdlFile
SetModel(a) ==
    /\ phase = "new"
    /\ IsModelInput(a)
    /\ bones' = ModelBones(a)
    /\ materialInstances' = ModelMaterialInstances(a)
    /\ meshes' = ModelMeshes(a)
    /\ meshGroups' = ModelMeshGroups(a)
    /\ phase' = "built"
    /\ UNCHANGED <<containerVars, raised, firstRead, callVars>>

\* a file that some other producer wrote
CraftFile(a, dropped) ==
    /\ phase = "new"
    /\ IsModelInput(a)
    /\ a.kind # "unskinned"
    /\ stream' = writeStream(CraftedContainer(a, dropped))
    /\ phase' = "crafted"
    /\ UNCHANGED <<segment0Blocks, segment1Blocks, loaded, modelVars, callVars>>

\* FmdlFile.writeFile: the file is opened only after the container is built
WriteFile ==
    /\ phase \in {"built", "read"}
    /\ \E built \in {BuildContainer(bones, materialInstances, meshes, meshGroups)} :
       IF built.err # NoError
       THEN /\ raised' = built.err
            /\ phase' = IF phase = "built" THEN "writefailed" ELSE "rewritefailed"
            /\ UNCHANGED <<segment0Blocks, segment1Blocks, stream>>
       ELSE /\ raised' = NoError
            /\ segment0Blocks' = built.fmdl.seg0
            /\ segment1Blocks' = built.fmdl.seg1
            /\ stream' = writeStream(built.fmdl)
            /\ phase' = IF phase = "built" THEN "written" ELSE "rewritten"
    /\ UNCHANGED <<loaded, bones, materialInstances, meshes, meshGroups, firstRead,
                   callVars>>

\* readFile assigning self.bones as soon as the bones are parsed
ReadFileBonesFirst ==
    /\ phase \in {"written", "crafted", "rewritten"}
    /\ \E fmdl \in {readStream(stream, NewContainer)} :
       \E parsed \in {IF fmdl.err # NoError THEN Fail(fmdl.err) ELSE ParseContainer(fmdl)} :
       \E early \in {IF fmdl.err # NoError THEN Fail(fmdl.err)
                     ELSE Then(parseStrings(fmdl), LAMBDA strings :
                          parseBones(fmdl, strings.val, parseBoundingBoxes(fmdl).val))} :
           /\ loaded' = fmdl
           /\ raised' = parsed.err
           /\ IF parsed.err # NoError
              THEN /\ phase' = IF phase = "rewritten" THEN "rereadfailed" ELSE "readfailed"
                   /\ bones' = IF early.err = NoError THEN early.val ELSE bones
                   /\ UNCHANGED <<materialInstances, meshes, meshGroups, firstRead>>
              ELSE /\ bones' = parsed.val.bones
                   /\ materialInstances' = parsed.val.materialInstances
                   /\ meshes' = parsed.val.meshes
                   /\ meshGroups' = parsed.val.meshGroups
                   /\ firstRead' = IF phase = "rewritten" THEN firstRead
                                   ELSE Some(parsed.val)
                   /\ phase' = IF phase = "rewritten" THEN "reread" ELSE "read"
    /\ UNCHANGED <<segment0Blocks, segment1Blocks, stream, callVars>>

\* FmdlFile.readFile of the stream, into the same FmdlFile
ReadFile ==
    /\ phase \in {"written", "crafted", "rewritten"}
    /\ \E fmdl \in {readStream(stream, NewContainer)} :
       \E parsed \in {IF fmdl.err # NoError THEN Fail(fmdl.err) ELSE ParseContainer(fmdl)} :
           /\ loaded' = fmdl
           /\ raised' = parsed.err
           /\ IF parsed.err # NoError
              THEN /\ phase' = IF phase = "rewritten" THEN "rereadfailed" ELSE "readfailed"
                   /\ UNCHANGED <<bones, materialInstances, meshes, meshGroups, firstRead>>
              ELSE /\ bones' = parsed.val.bones
                   /\ materialInstances' = parsed.val.materialInstances
                   /\ meshes' = parsed.val.meshes
                   /\ meshGroups' = parsed.val.meshGroups
                   /\ firstRead' = IF phase = "rewritten" THEN firstRead
                                   ELSE Some(parsed.val)
                   /\ phase' = IF phase = "rewritten" THEN "reread" ELSE "read"
    /\ UNCHANGED <<segment0Blocks, segment1Blocks, stream, callVars>>

FileNext ==
    \/ \E a \in ModelInputs : SetModel(a)
    \/ \E a \in ModelInputs, dropped \in DroppedBlocks : CraftFile(a, dropped)
    \/ WriteFile
    \/ ReadFile

FileSpec == FileInit /\ [][FileNext]_vars

\* the four fields of the FmdlFile, as readFile assigns them
CurrentModel ==
    [bones |-> bones, materialInstances |-> materialInstances, meshes |-> meshes,
     meshGroups |-> meshGroups]

\* the bones of a model without their bounding boxes
BonesOf(model) ==
    [i \in DOMAIN model.bones |->
        [name |-> model.bones[i].name, parent |-> model.bones[i].parent,
         children |-> model.bones[i].children,
         localPosition |-> model.bones[i].localPosition,
         globalPosition |-> model.bones[i].globalPosition]]

\* the mesh groups of a model without their bounding boxes
MeshGroupsOf(model) ==
    [i \in DOMAIN model.meshGroups |->
        [name |-> model.meshGroups[i].name, visible |-> model.meshGroups[i].visible,
         parent |-> model.meshGroups[i].parent,
         children |-> model.meshGroups[i].children,
         meshes |-> model.meshGroups[i].meshes]]

\* same bones with the same parents, same material instances, same meshes,
\* same mesh groups with the same meshes and parents
SameModel(a, b) ==
    /\ BonesOf(a) = BonesOf(b)
    /\ a.materialInstances = b.materialInstances
    /\ a.meshes = b.meshes
    /\ MeshGroupsOf(a) = MeshGroupsOf(b)

\* C1: for every file readFile accepts, writeFile of the model read succeeds,
\* and readFile of the file written gives a model equal to the one read
\* first: same bones and parents, same material instances, same meshes, same
\* mesh groups with the same meshes and parents
C1_ReadWriteRead ==
    /\ phase # "rewritefailed"
    /\ phase # "rereadfailed"
    /\ phase = "reread" => SameModel(CurrentModel, The(firstRead))

\* where a write of a model that was read goes through, the model read back
\* is the one read first, the bounding boxes apart
C1_EqualWhenWritten ==
    phase = "reread" => SameModel(CurrentModel, The(firstRead))

\* the model read back has the bounding boxes of the one read first
C1_BoundingBoxesKept ==
    phase = "reread" =>
        /\ \A i \in DOMAIN bones :
               bones[i].boundingBox = The(firstRead).bones[i].boundingBox
        /\ \A i \in DOMAIN meshGroups :
               meshGroups[i].boundingBox = The(firstRead).meshGroups[i].boundingBox

\* every mesh of the FmdlFile is without a bone group and without bone
\* mapping, and nothing else is missing that writeFile takes: every mesh
\* group has its bounding box
OnlyUnskinnedMeshes ==
    /\ meshes # <<>>
    /\ \A i \in DOMAIN meshes :
           meshes[i].boneGroup = None /\ ~meshes[i].vertexFields.hasBoneMapping
    /\ \A i \in DOMAIN meshGroups : meshGroups[i].boundingBox # None

\* C2: writeFile of a model whose meshes have no boneGroup and have
\* vertexFields.hasBoneMapping false raises no error, and the file has no
\* boneWeights or boneIndices format entry
C2_BoneGroupOptional ==
    (phase \in {"written", "writefailed", "rewritten", "rewritefailed"}
        /\ OnlyUnskinnedMeshes) =>
        /\ raised = NoError
        /\ 11 \in DOMAIN segment0Blocks
        /\ \A i \in DOMAIN segment0Blocks[11] :
               segment0Blocks[11][i][1] \notin {FmdlVertexDatumType.boneWeights,
                                                FmdlVertexDatumType.boneIndices}


(***************************************************************************)
(* readStream on the block descriptors of a file                           *)
(***************************************************************************)
MaxDescriptors0 == 2
MaxDescriptors1 == 2

\* segment-0 descriptors (blockID, entryCount, blockOffset): two ids of the
\* record-size table (records of 4 and of 8 bytes) and one id that is not in it
Descriptor0Inputs == [blockID : {11, 12, 15}, entryCount : {1, 2}, blockOffset : {0, 4}]

\* segment-1 descriptors (blockID, blockOffset, length)
Descriptor1Inputs == [blockID : {2, 3}, blockOffset : {0}, length : {4}]

DescriptorInputs ==
    [d0 : UNION {[1..n -> Descriptor0Inputs] : n \in 0..MaxDescriptors0},
     d1 : UNION {[1..n -> Descriptor1Inputs] : n \in 0..MaxDescriptors1}]

\* the 12 bytes of segment 0 and the 4 bytes of segment 1 of the file
Section0Payload == [i \in 1..12 |-> 100 + i]
Section1Payload == <<201, 202, 203, 204>>

\* a file with the header as the writer lays it out, the descriptors a.d0
\* and a.d1, and the two payloads
DescriptorsFile(a) ==
    LET descriptors == Pad16(
            Concat([i \in DOMAIN a.d0 |-> PackUInt(a.d0[i].blockID, 2)
                       \o PackUInt(a.d0[i].entryCount, 2)
                       \o PackUInt(a.d0[i].blockOffset, 4)])
            \o Concat([i \in DOMAIN a.d1 |-> PackUInt(a.d1[i].blockID, 4)
                       \o PackUInt(a.d1[i].blockOffset, 4)
                       \o PackUInt(a.d1[i].length, 4)]))
        section0Offset == 64 + Len(descriptors)
    IN  MAGIC \o VERSION_2_03 \o PackUInt(64, 8)
          \o Bitmap({a.d0[i].blockID : i \in DOMAIN a.d0})
          \o Bitmap({a.d1[i].blockID : i \in DOMAIN a.d1})
          \o PackUInt(Len(a.d0), 4) \o PackUInt(Len(a.d1), 4)
          \o PackUInt(section0Offset, 4) \o PackUInt(Len(Section0Payload), 4)
          \o PackUInt(section0Offset + Len(Section0Payload), 4)
          \o PackUInt(Len(Section1Payload), 4)
          \o PackUInt(0, 8) \o descriptors \o Section0Payload \o Section1Payload

DescriptorsInit ==
    /\ ContainerIdle /\ ModelIdle
    /\ args \in DescriptorInputs
    /\ ret = <<>>
    /\ phase = "new"

\* FmdlContainer.readStream of the file into a fresh container
ReadDescriptors ==
    /\ phase = "new"
    /\ stream' = DescriptorsFile(args)
    /\ loaded' = readStream(DescriptorsFile(args), NewContainer)
    /\ phase' = "described"
    /\ UNCHANGED <<segment0Blocks, segment1Blocks, modelVars, callVars>>

DescriptorsNext == ReadDescriptors

DescriptorsSpec == DescriptorsInit /\ [][DescriptorsNext]_vars

StreamSection0Offset(s) == UnpackHeader(ReadAt(s, 0, 56)).section0Offset

\* the segment-0 descriptors whose id is in the record-size table
KnownDescriptors(ds) == {i \in DOMAIN ds : ds[i].blockID \in DOMAIN SECTION0_BLOCK_ENTRY_SIZES}

\* a known id, or a segment-1 id, appears in two descriptors
Repeated0(ds) == \E i, j \in KnownDescriptors(ds) : i < j /\ ds[i].blockID = ds[j].blockID
Repeated1(ds) == \E i, j \in DOMAIN ds : i < j /\ ds[i].blockID = ds[j].blockID

\* the records of segment-0 descriptor d do not all lie in the file
RunsOut(s, d) ==
    StreamSection0Offset(s) + d.blockOffset
        + d.entryCount * SECTION0_BLOCK_ENTRY_SIZES[d.blockID] > Len(s)

\* C11: after a successful readStream into a fresh container segment0Blocks
\* holds exactly the descriptor block-ids of the record-size table, each with
\* entryCount records of the table's size (the bytes at the descriptor's
\* offset); descriptors with an unknown id are skipped without error, also
\* when repeated; a known segment-0 id or any segment-1 id in two descriptors
\* fails the read, with the duplicate-block error when no block before ran
\* out of the file, so that no container holds two blocks for one id.
C11_Section0Blocks ==
    phase = "described" =>
        LET ds0 == StreamDescriptors0(stream)
            ds1 == StreamDescriptors1(stream)
            known == KnownDescriptors(ds0)
        IN
        /\ Len(ds0) = Len(args.d0) /\ Len(ds1) = Len(args.d1)
        /\ loaded.err = NoError =>
              /\ DOMAIN loaded.seg0 = {ds0[i].blockID : i \in known}
              /\ DOMAIN loaded.seg1 = {ds1[i].blockID : i \in DOMAIN ds1}
              /\ ~Repeated0(ds0) /\ ~Repeated1(ds1)
              /\ \A i \in known :
                    LET d == ds0[i]
                        size == SECTION0_BLOCK_ENTRY_SIZES[d.blockID]
                    IN  /\ Len(loaded.seg0[d.blockID]) = d.entryCount
                        /\ \A k \in 1..d.entryCount :
                               /\ Len(loaded.seg0[d.blockID][k]) = size
                               /\ loaded.seg0[d.blockID][k] =
                                     ReadAt(stream, StreamSection0Offset(stream)
                                         + d.blockOffset + size * (k - 1), size)
        /\ Repeated0(ds0) \/ Repeated1(ds1) => loaded.err # NoError
        /\ Repeated0(ds0) /\ (\A i \in known : ~RunsOut(stream, ds0[i]))
              => loaded.err = InvalidFmdl("Duplicate segment 0 block")
        /\ ~Repeated0(ds0) /\ (\A i \in known : ~RunsOut(stream, ds0[i]))
              => IF Repeated1(ds1)
                 THEN loaded.err = InvalidFmdl("Duplicate segment 1 block")
                 ELSE loaded.err = NoError

\* C11 witness: a read has succeeded on a file with a descriptor of an
\* unknown id, given two records, and a descriptor of a known id, which
\* alone is stored, with its two records.
C11_Witness ==
    /\ phase = "described"
    /\ loaded.err = NoError
    /\ \E i \in DOMAIN args.d0 : args.d0[i].blockID = 15 /\ args.d0[i].entryCount = 2
    /\ DOMAIN loaded.seg0 = {12}
    /\ Len(loaded.seg0[12]) = 2
    /\ DOMAIN loaded.seg1 = {2, 3}

\* a read has succeeded on a file with two descriptors of one unknown id
C11_RepeatedUnknown ==
    /\ phase = "described"
    /\ loaded.err = NoError
    /\ \E i, j \in DOMAIN args.d0 :
          i < j /\ args.d0[i].blockID = 15 /\ args.d0[j].blockID = 15


(***************************************************************************)
(* addString and parseStrings on one container                             *)
(***************************************************************************)
MaxStrings == 3

\* strings as lists of code points: empty, ASCII, with a NUL, and with code
\* points of two, three and four bytes
StringInputs ==
    {<<>>, <<97>>, <<97, 98>>, <<0>>, <<97, 0, 98>>, <<233>>, <<8364, 97>>, <<128512>>}

StringsInit ==
    /\ ContainerIdle /\ ModelIdle
    /\ args = <<>>
    /\ ret = [ids |-> <<>>, parsed |-> None]
    /\ phase = "new"

\* FmdlFile.addString on the container; args are the strings added so far
\* and ret.ids the values returned
AddString(string) ==
    /\ phase \in {"new", "build"}
    /\ Len(args) < MaxStrings
    /\ \E added \in {addString(Built, string)} :
          /\ segment0Blocks' = added.fmdl.seg0
          /\ segment1Blocks' = added.fmdl.seg1
          /\ ret' = [ret EXCEPT !.ids = Append(@, added.ID)]
    /\ args' = Append(args, string)
    /\ phase' = "build"
    /\ UNCHANGED <<stream, loaded, modelVars>>

\* FmdlFile.parseStrings on the container
ParseStrings ==
    /\ phase \in {"new", "build"}
    /\ ret' = [ret EXCEPT !.parsed = Some(parseStrings(Built))]
    /\ phase' = "parsed"
    /\ UNCHANGED <<containerVars, modelVars, args>>

StringsNext ==
    \/ \E string \in StringInputs : AddString(string)
    \/ ParseStrings

StringsSpec == StringsInit /\ [][StringsNext]_vars

\* the number of bytes of a code point in UTF-8
Utf8Length(c) == IF c < 128 THEN 1 ELSE IF c < 2048 THEN 2 ELSE IF c < 65536 THEN 3 ELSE 4

RECURSIVE ByteLength(_)
ByteLength(string) ==
    IF string = <<>> THEN 0 ELSE Utf8Length(Head(string)) + ByteLength(Tail(string))

RECURSIVE OffsetOf(_, _)
\* the sum over the first k strings of byte length + 1
OffsetOf(strings, k) ==
    IF k = 0 THEN 0 ELSE OffsetOf(strings, k - 1) + ByteLength(strings[k]) + 1

\* C12: after any sequence of addString calls on a container, repeats
\* included, the k-th call (from 0) has returned k; record k of block 12 is
\* (3, UTF-8 byte length of string k without the NUL, sum over the earlier
\* strings of byte length + 1); segment-1 block 3 is the concatenation, in
\* insertion order, of each encoded string followed by one NUL byte; equal
\* strings are stored twice under distinct IDs; and parseStrings returns
\* exactly the inserted strings in insertion order.
C12_Strings ==
    /\ ret.ids = [k \in 1..Len(args) |-> k - 1]
    /\ args # <<>> =>
          /\ DOMAIN segment0Blocks = {12}
          /\ Len(segment0Blocks[12]) = Len(args)
          /\ \A k \in DOMAIN args :
                segment0Blocks[12][k] =
                    PackUInt(3, 2) \o PackUInt(ByteLength(args[k]), 2)
                        \o PackUInt(OffsetOf(args, k - 1), 4)
          /\ DOMAIN segment1Blocks = {3}
          /\ segment1Blocks[3] = Concat([k \in DOMAIN args |-> Utf8Encode(args[k]) \o <<0>>])
          /\ Len(segment1Blocks[3]) = OffsetOf(args, Len(args))
    /\ phase = "parsed" => ret.parsed = Some(Ok(args))

\* C12 witness: parseStrings has returned three strings of which the first
\* and the last are equal, stored under the IDs 0 and 2, with a string of
\* more bytes than code points between them.
C12_Witness ==
    /\ phase = "parsed"
    /\ Len(args) = 3
    /\ args[1] = args[3] /\ args[1] # <<>>
    /\ ByteLength(args[2]) > Len(args[2])
    /\ ret.ids = <<0, 1, 2>>
    /\ The(ret.parsed).val = args


(***************************************************************************)
(* An FmdlFile of one bone and nothing else, written and read              *)
(***************************************************************************)
\* "root"
RootName == <<114, 111, 111, 116>>

\* a bone without parent: its name, the two corners of its bounding box and
\* its two positions (each four floats, as their 16 bytes)
SkeletonInputs ==
    [name : {RootName, <<>>, <<98>>, <<233>>, <<8364, 97>>},
     min : {Zeros(16), Zeros(15) \o <<1>>},
     max : {Zeros(16), Zeros(15) \o <<2>>},
     position : {Zeros(16), <<3>> \o Zeros(15)}]

\* the client gives the FmdlFile one bone; args keeps what was given
SetSkeleton(a) ==
    /\ phase = "new"
    /\ bones' = <<[name |-> a.name,
                   boundingBox |-> [oid |-> 0, min |-> a.min, max |-> a.max],
                   localPosition |-> a.position,
                   globalPosition |-> a.position,
                   parent |-> None,
                   children |-> <<>>]>>
    /\ args' = a
    /\ phase' = "built"
    /\ UNCHANGED <<containerVars, materialInstances, meshes, meshGroups, raised,
                   firstRead, ret>>

SkeletonNext ==
    \/ \E a \in SkeletonInputs : SetSkeleton(a)
    \/ WriteFile
    \/ ReadFile

SkeletonSpec == FileInit /\ [][SkeletonNext]_vars

\* C13: a model with one bone named "root" (no parent, zero bounding box), no
\* material instances, no meshes and no mesh groups is written by writeFile
\* without error, and reading the written file succeeds with exactly one
\* bone, whose name is "root" and whose parent is None, zero meshes and zero
\* mesh groups; the same holds for every other name and bounding box of the
\* one bone.
C13_RootBone ==
    /\ phase \notin {"writefailed", "readfailed"}
    /\ phase \in {"written", "read"} => raised = NoError
    /\ phase = "read" =>
          /\ Len(bones) = 1
          /\ bones[1].name = args.name
          /\ bones[1].parent = None
          /\ meshes = <<>>
          /\ meshGroups = <<>>

\* C13 witness: the file written for the bone "root" with a zero bounding box
\* has been read.
C13_Witness ==
    /\ phase = "read"
    /\ args.name = RootName
    /\ args.min = Zeros(16) /\ args.max = Zeros(16)
    /\ bones[1].name = RootName
    /\ Len(stream) > 0


(***************************************************************************)
(* The uv channels of a mesh, written and read                             *)
(***************************************************************************)
\* the members of uvTypes
UvChannels == 4

\* uvEqualities as parseMeshes gives them for the classes f of the channels:
\* for each channel the other channels of its class, ascending
UvEqualitiesOf(f) ==
    [i \in DOMAIN f |-> SortedSeq({j \in DOMAIN f : j # i /\ f[j] = f[i]})]

\* every equivalence relation over the channels 0..n-1
UvRelations(n) == {UvEqualitiesOf(f) : f \in [0..(n - 1) -> 0..(n - 1)]}

UvInputs ==
    [kind : {"skinned", "boneless"}, hasNormal : BOOLEAN, uvCount : 0..UvChannels,
     uvEqualities : UNION {UvRelations(n) : n \in 0..UvChannels}]

\* the model of the input: a bone, a material instance, a mesh group and a
\* mesh with a.uvCount channels, whose vertices have a different uv in every
\* channel
UvMesh(a) ==
    LET base == [boneCount |-> 1, meshCount |-> 1, groupCount |-> 1, kind |-> a.kind,
                 hasNormal |-> a.hasNormal, uv |-> "none"]
        mesh == ModelMeshes(base)[1]
    IN  [mesh EXCEPT
            !.vertexFields.uvCount = a.uvCount,
            !.vertexFields.uvEqualities = a.uvEqualities,
            !.vertices = [v \in DOMAIN mesh.vertices |->
                [mesh.vertices[v] EXCEPT
                    !.uv = [i \in 1..a.uvCount |-> <<Half(v), Half(i)>>]]]]

\* the client fills the four fields of a new FmdlFile; args keeps the input
SetUvModel(a) ==
    /\ phase = "new"
    /\ DOMAIN a.uvEqualities = 0..(a.uvCount - 1)
    /\ \E base \in {[boneCount |-> 1, meshCount |-> 1, groupCount |-> 1, kind |-> a.kind,
                     hasNormal |-> a.hasNormal, uv |-> "none"]} :
          /\ bones' = ModelBones(base)
          /\ materialInstances' = ModelMaterialInstances(base)
          /\ meshGroups' = ModelMeshGroups(base)
    /\ meshes' = <<UvMesh(a)>>
    /\ args' = a
    /\ phase' = "built"
    /\ UNCHANGED <<containerVars, raised, firstRead, ret>>

UvNext ==
    \/ \E a \in UvInputs : SetUvModel(a)
    \/ WriteFile
    \/ ReadFile

UvSpec == FileInit /\ [][UvNext]_vars

\* the offset of the block-11 record of uv channel i in the container written
UvRecordOffset(i) ==
    UnpackUInt(CHOOSE r \in Range(segment0Blocks[11]) :
                   r[1] = FmdlVertexDatumType.uv0 + i, 2, 2)

\* C14: for every uvCount in 0..4 and every uvEqualities that is an
\* equivalence relation over the channels, as the reader produces them, the
\* mesh is written and read without error, the block-11 records of two
\* channels carry the same offset exactly when the channels are marked
\* equal, and the read yields the same uvCount and the same uvEqualities; so
\* for uvCount = 2 with uv0 and uv1 marked equal the two UV records have one
\* offset and re-reading gives uvEqualities {0:[1], 1:[0]}.
C14_UvEqualities ==
    /\ phase \notin {"writefailed", "readfailed"}
    /\ phase \in {"written", "read"} =>
          /\ Cardinality({k \in DOMAIN segment0Blocks[11] :
                 segment0Blocks[11][k][1] \in
                     {FmdlVertexDatumType.uv0 + i : i \in 0..(UvChannels - 1)}})
                = args.uvCount
          /\ \A i, j \in 0..(args.uvCount - 1) :
                i # j => ( UvRecordOffset(i) = UvRecordOffset(j)
                           <=> j \in Range(args.uvEqualities[i]) )
    /\ phase = "read" =>
          /\ Len(meshes) = 1
          /\ meshes[1].vertexFields.uvCount = args.uvCount
          /\ meshes[1].vertexFields.uvEqualities = args.uvEqualities
          /\ \A v \in DOMAIN meshes[1].vertices :
                Len(meshes[1].vertices[v].uv) = args.uvCount

\* C14 witness: a mesh with uvCount 2 whose uv0 and uv1 are marked equal has
\* been written and read: its two UV records carry one offset and the read
\* gives {0:[1], 1:[0]}.
C14_Witness ==
    /\ phase = "read"
    /\ args.uvCount = 2
    /\ args.uvEqualities = (0 :> <<1>>) @@ (1 :> <<0>>)
    /\ UvRecordOffset(0) = UvRecordOffset(1)
    /\ meshes[1].vertexFields.uvEqualities = (0 :> <<1>>) @@ (1 :> <<0>>)

\* a mesh of four channels in the two classes {uv0, uv2} and {uv1, uv3} has
\* been written and read
C14_TwoClasses ==
    /\ phase = "read"
    /\ args.uvCount = 4
    /\ meshes[1].vertexFields.uvEqualities =
          (0 :> <<2>>) @@ (1 :> <<3>>) @@ (2 :> <<0>>) @@ (3 :> <<1>>)


(***************************************************************************)
(* parseFloat16 and encodeFloat16                                          *)
(***************************************************************************)
\* floats to encode: zeros, numbers of up to 12 significant bits from below
\* the smallest half to above the largest, infinities and NaNs, of both signs
FloatInputs ==
    {Finite(neg, num, exp) : neg \in BOOLEAN, num \in {0, 1, 3, 1023, 2047, 2049, 4095},
                             exp \in (-26)..6}
        \cup {Infinity(neg) : neg \in BOOLEAN} \cup {NaN(neg) : neg \in BOOLEAN}

\* 16-bit patterns to parse
Int16Inputs ==
    {257 * k : k \in 0..255}
        \cup {1, 1023, 1024, 15360, 31743, 31744, 32767, 32768, 49152, 64512}

HalfInputs ==
    [op : {"encode"}, value : FloatInputs] \cup [op : {"parse"}, value : Int16Inputs]

HalfInit ==
    /\ ContainerIdle /\ ModelIdle
    /\ args \in HalfInputs
    /\ ret = <<>>
    /\ phase = "new"

\* FmdlFile.encodeFloat16 of the float given
EncodeFloat16 ==
    /\ phase = "new"
    /\ args.op = "encode"
    /\ ret' = encodeFloat16(args.value)
    /\ phase' = "encoded"
    /\ UNCHANGED <<containerVars, modelVars, args>>

\* FmdlFile.parseFloat16 of the pattern given, or of the pattern encoded
ParseFloat16 ==
    /\ \/ /\ phase = "new"
          /\ args.op = "parse"
          /\ ret' = parseFloat16(args.value)
          /\ phase' = "parsed"
       \/ /\ phase = "encoded"
          /\ ret' = parseFloat16(ret)
          /\ phase' = "decoded"
    /\ UNCHANGED <<containerVars, modelVars, args>>

HalfNext == EncodeFloat16 \/ ParseFloat16

HalfSpec == HalfInit /\ [][HalfNext]_vars

\* -0.0
NegativeZero == [kind |-> "finite", neg |-> TRUE, num |-> 0, exp |-> 0]

\* C15 (as claimed): decode(encode(x)) preserves the special values of
\* binary16: encodeFloat16(+inf) decodes to +inf, encodeFloat16(NaN) decodes
\* to a NaN, and encodeFloat16(-0.0) is 0x8000 and decodes to -0.0.
C15_SpecialValues ==
    /\ phase = "encoded" /\ args.value = NegativeZero => ret = 32768
    /\ phase = "decoded" =>
          /\ args.value = Infinity(FALSE) => ret = Infinity(FALSE)
          /\ args.value.kind = "nan" => ret.kind = "nan"
          /\ args.value = NegativeZero => ret = NegativeZero

\* what holds of the special values: the infinities of both signs and the
\* NaNs are kept, and either zero is encoded as 0x0000
C15_InfinityAndNaN ==
    /\ phase = "encoded" /\ args.value.kind = "finite" /\ args.value.num = 0 => ret = 0
    /\ phase = "decoded" =>
          /\ args.value.kind = "inf" => ret = args.value
          /\ args.value.kind = "nan" => ret.kind = "nan"


\* C16: the half-float codec produces the literal sample values:
\* encodeFloat16(1.0) is 0x3C00, encodeFloat16(-2.0) is 0xC000,
\* encodeFloat16(65504.0) is 0x7BFF, parseFloat16(0x0001) is 2^-24 (about
\* 5.96e-8) and parseFloat16(0xFC00) is -inf.
C16_SampleValues ==
    /\ phase = "encoded" =>
          /\ args.value = Finite(FALSE, 1, 0) => ret = 15360
          /\ args.value = Finite(TRUE, 1, 1) => ret = 49152
          /\ args.value = Finite(FALSE, 2047, 5) => ret = 31743
    /\ phase = "parsed" =>
          /\ args.value = 1 => ret = Finite(FALSE, 1, -24)
          /\ args.value = 64512 => ret = Infinity(TRUE)

\* C16 witness: the smallest subnormal pattern, 0x0001, has been parsed.
C16_Witness ==
    /\ phase = "parsed"
    /\ args.value = 1
    /\ ret.kind = "finite" /\ ret.num = 1 /\ ret.exp = -24

\* 65504.0, the largest half, has been encoded
C16_LargestEncoded ==
    /\ phase = "encoded"
    /\ args.value = [kind |-> "finite", neg |-> FALSE, num |-> 2047, exp |-> 5]
    /\ ret = 31743


(***************************************************************************)
(* addVertices on the bone mapping of a vertex                             *)
(***************************************************************************)
MaxMappedBones == 5

\* the weights 0.4, 0.3, 0.2 and 0.05
WeightInputs ==
    {[num |-> 2, den |-> 5], [num |-> 3, den |-> 10], [num |-> 1, den |-> 5],
     [num |-> 1, den |-> 20]}

\* the weights of the bones 0, 1, ... of a vertex, in the order of its dict
WeightLists == UNION {[1..n -> WeightInputs] : n \in 0..MaxMappedBones}

\* the bone group of the mesh: the bones from the last to the first, so that
\* bone b has the index MaxMappedBones - 1 - b in the group
WeightsBoneGroup == [bones |-> [i \in 1..MaxMappedBones |-> MaxMappedBones - i]]

\* a skinned mesh of one vertex with the weights given
WeightsMesh(weights) ==
    [vertices |-> <<[position |-> Some(<<Zeros(4), Zeros(4), FloatOne>>),
                     normal |-> None, tangent |-> None, color |-> None, uv |-> <<>>,
                     boneMapping |-> Some([k \in DOMAIN weights |->
                                               <<k - 1, weights[k]>>])]>>,
     faces |-> <<>>,
     boneGroup |-> Some(WeightsBoneGroup),
     materialInstance |-> 0, alphaEnum |-> 0, shadowEnum |-> 0,
     vertexFields |-> [hasNormal |-> FALSE, hasTangent |-> FALSE, hasColor |-> FALSE,
                       hasBoneMapping |-> TRUE, uvCount |-> 0, uvEqualities |-> <<>>]]

WeightsInit ==
    /\ ContainerIdle /\ ModelIdle
    /\ args \in WeightLists
    /\ ret = <<>>
    /\ phase = "new"

\* FmdlFile.addMesh of the mesh on a new container, with empty buffers: ret
\* is what it gives, with the buffers addVertices has filled
AddMesh ==
    /\ phase = "new"
    /\ ret' = addMesh(NewContainer, WeightsMesh(args), 0, <<>>, <<>>, <<>>)
    /\ phase' = "added"
    /\ UNCHANGED <<containerVars, modelVars, args>>

WeightsNext == AddMesh

WeightsSpec == WeightsInit /\ [][WeightsNext]_vars

\* the four weight bytes and the four index bytes written for the vertex
WrittenWeights == SubSeq(ret.vertexDataBuffer, 1, 4)
WrittenIndices == SubSeq(ret.vertexDataBuffer, 5, 8)

\* floor(weight * 255)
WeightByte(weight) == (weight.num * 255) \div weight.den

\* the weight a is at least the weight b
AtLeast(a, b) == a.num * b.den >= b.num * a.den

\* pick names, for each written slot, the bone of args it was taken from:
\* different bones in different slots, the weights descending along the
\* slots, no bone left out that is heavier than one written, and the slot
\* holding the bone's index in the group and its weight byte
IsHeaviestFirst(pick) ==
    /\ \A i, j \in DOMAIN pick : i # j => pick[i] # pick[j]
    /\ \A i, j \in DOMAIN pick : i < j => AtLeast(args[pick[i]], args[pick[j]])
    /\ \A k \in DOMAIN args :
          k \notin Range(pick) => \A i \in DOMAIN pick : AtLeast(args[pick[i]], args[k])
    /\ \A i \in DOMAIN pick :
          /\ WrittenWeights[i] = WeightByte(args[pick[i]])
          /\ WrittenIndices[i] = MaxMappedBones - pick[i]

\* C17: addVertices packs a vertex's bone mapping as (boneGroup index,
\* weight) pairs sorted by weight descending; with more than 4 bones only
\* the 4 heaviest are written, with fewer than 4 the remaining slots are
\* padded with index 0 and weight 0.0; each weight byte is floor(weight *
\* 255), so the weights (0.4, 0.3, 0.2, 0.05, 0.05) are written as the four
\* bytes (102, 76, 51, 12).
C17_BoneWeights ==
    phase = "added" =>
        /\ ret.err = NoError
        /\ Len(ret.vertexDataBuffer) = 16
        /\ \E pick \in [1..Min(Len(args), 4) -> DOMAIN args] : IsHeaviestFirst(pick)
        /\ \A i \in 1..4 :
              i > Len(args) => WrittenWeights[i] = 0 /\ WrittenIndices[i] = 0
        /\ args = <<[num |-> 2, den |-> 5], [num |-> 3, den |-> 10], [num |-> 1, den |-> 5],
                    [num |-> 1, den |-> 20], [num |-> 1, den |-> 20]>>
              => WrittenWeights = <<102, 76, 51, 12>>

\* C17 witness: a vertex with the five weights (0.05, 0.4, 0.05, 0.3, 0.2),
\* which are not in order, has been written as (102, 76, 51, 12) with the
\* indices of the bones 1, 3, 4 and 0 in the bone group.
C17_Witness ==
    /\ phase = "added"
    /\ args = <<[num |-> 1, den |-> 20], [num |-> 2, den |-> 5], [num |-> 1, den |-> 20],
                [num |-> 3, den |-> 10], [num |-> 1, den |-> 5]>>
    /\ WrittenWeights = <<102, 76, 51, 12>>
    /\ WrittenIndices = <<MaxMappedBones - 2, MaxMappedBones - 4, MaxMappedBones - 5,
                          MaxMappedBones - 1>>

\* a vertex with two bones has been written with two padded slots
C17_Padded ==
    /\ phase = "added"
    /\ Len(args) = 2
    /\ WrittenWeights[3] = 0 /\ WrittenWeights[4] = 0
    /\ WrittenWeights[2] > 0


(***************************************************************************)
(* addBoneGroup and parseBoneGroups on one container                       *)
(***************************************************************************)
MaxBoneGroups == 2
MaxSkeletonBones == 5

\* the numbers of bones of a group: around the limit of 32 and near none
GroupSizes == {0, 1, 2, 31, 32, 33, 34}

\* a bone group of n bones: the bones of the skeleton in turn from the
\* bone first, as their positions in the list of bones
BoneGroupInputs ==
    {[bones |-> [i \in 1..n |-> (first + i - 1) % MaxSkeletonBones]] :
        n \in GroupSizes, first \in {0, 3}}

BoneGroupsInit ==
    /\ ContainerIdle /\ ModelIdle
    /\ args = <<>>
    /\ ret = [ids |-> <<>>, parsed |-> None]
    /\ phase = "new"

\* FmdlFile.addBoneGroup on the container; args are the bone groups given
\* so far, ret.ids the IDs returned and raised what the last call raised
AddBoneGroup(boneGroup) ==
    /\ phase \in {"new", "build"}
    /\ Len(args) < MaxBoneGroups
    /\ \E added \in {addBoneGroup(Built, Some(boneGroup))} :
          /\ segment0Blocks' = added.fmdl.seg0
          /\ segment1Blocks' = added.fmdl.seg1
          /\ raised' = added.err
          /\ ret' = IF added.err = NoError
                    THEN [ret EXCEPT !.ids = Append(@, added.ID)] ELSE ret
          /\ phase' = IF added.err = NoError THEN "build" ELSE "failed"
    /\ args' = Append(args, boneGroup)
    /\ UNCHANGED <<stream, loaded, bones, materialInstances, meshes, meshGroups, firstRead>>

\* FmdlFile.parseBoneGroups on the container, with the bones of the skeleton
ParseBoneGroups ==
    /\ phase \in {"new", "build", "failed"}
    /\ ret' = [ret EXCEPT !.parsed =
                  Some(parseBoneGroups(Built, [i \in 1..MaxSkeletonBones |-> i - 1]))]
    /\ phase' = "parsed"
    /\ UNCHANGED <<containerVars, modelVars, args>>

BoneGroupsNext ==
    \/ \E boneGroup \in BoneGroupInputs : AddBoneGroup(boneGroup)
    \/ ParseBoneGroups

BoneGroupsSpec == BoneGroupsInit /\ [][BoneGroupsNext]_vars

\* the bone groups given that have 32 bones or fewer
Written == SelectSeq(args, LAMBDA g : Len(g.bones) <= 32)

\* the records of block 5 of the container
Block5 == IF 5 \in DOMAIN segment0Blocks THEN segment0Blocks[5] ELSE <<>>

\* C18: a bone group of n <= 32 bones (32 included) is written by
\* addBoneGroup as one 68-byte record of block 5, which parseBoneGroups reads
\* back as the same bones in the same order; a bone group of 33 or more
\* bones makes the write fail (InvalidFmdl, "Too many bones in bone group")
\* before any record is appended to block 5.
C18_BoneGroupLimit ==
    /\ Len(Block5) = Len(Written)
    /\ \A k \in DOMAIN Block5 : Len(Block5[k]) = 68
    /\ ret.ids = [k \in DOMAIN Written |-> k - 1]
    /\ (5 \in DOMAIN segment0Blocks) = (Written # <<>>)
    /\ args # <<>> =>
          IF Len(args[Len(args)].bones) <= 32
          THEN raised = NoError /\ Written = args
          ELSE /\ raised = InvalidFmdl("Too many bones in bone group")
               /\ Written = SubSeq(args, 1, Len(args) - 1)
    /\ ret.parsed # None => The(ret.parsed) = Ok(Written)

\* C18 witness: a group of 32 bones, written after another, has been read
\* back, and so has the group before it.
C18_Witness ==
    /\ phase = "parsed"
    /\ Len(args) = 2
    /\ Len(args[2].bones) = 32
    /\ args[2].bones[1] = 3
    /\ The(ret.parsed).err = NoError
    /\ The(ret.parsed).val[2] = args[2]
    /\ Len(Block5) = 2

\* a group of 33 bones has failed to be written after a group of 32 bones,
\* and block 5 holds the one record
C18_Overflow ==
    /\ phase = "failed"
    /\ Len(args) = 2
    /\ Len(args[1].bones) = 32
    /\ Len(args[2].bones) = 33
    /\ Len(Block5) = 1


(***************************************************************************)
(* parseVertices on the bone weights and bone indices of a vertex          *)
(***************************************************************************)
MaxGroupLen == 2
MaxSlotIndex == 2

\* the four weight bytes and the four index bytes of a vertex, and the
\* number of bones of the bone group of its mesh
SlotInputs ==
    [weights : [1..4 -> {0, 1, 255}],
     indices : [1..4 -> 0..MaxSlotIndex],
     groupLen : 0..MaxGroupLen]

\* the bone group: bones from the last of the skeleton downwards
SlotsBoneGroup(a) == [bones |-> [i \in 1..a.groupLen |-> MaxSkeletonBones - i]]

\* the vertex buffer: a position padded to 16 bytes, then the weights and
\* the indices
SlotsContainer(a) ==
    [NewContainer EXCEPT !.seg1 =
        (2 :> (Zeros(4) \o Zeros(4) \o FloatOne \o Zeros(4) \o a.weights \o a.indices))]

SlotsFormat ==
    <<[datumType |-> FmdlVertexDatumType.position,
       datumFormat |-> FmdlVertexDatumFormat.tripleFloat32, offset |-> 0, increment |-> 12],
      [datumType |-> FmdlVertexDatumType.boneWeights,
       datumFormat |-> FmdlVertexDatumFormat.quadFloat8, offset |-> 16, increment |-> 8],
      [datumType |-> FmdlVertexDatumType.boneIndices,
       datumFormat |-> FmdlVertexDatumFormat.quadInt8, offset |-> 20, increment |-> 8]>>

SlotsInit ==
    /\ ContainerIdle /\ ModelIdle
    /\ args \in SlotInputs
    /\ ret = <<>>
    /\ phase = "new"

\* FmdlFile.parseVertices of the one vertex
ParseVertices ==
    /\ phase = "new"
    /\ ret' = parseVertices(SlotsContainer(args), SlotsFormat, Some(SlotsBoneGroup(args)), 1)
    /\ phase' = "parsed"
    /\ UNCHANGED <<containerVars, modelVars, args>>

SlotsNext == ParseVertices

SlotsSpec == SlotsInit /\ [][SlotsNext]_vars

\* slot i (1..4) has a weight above 0.000001 and an index inside the group
Contributes(i) ==
    /\ args.weights[i] * 1000000 > 255
    /\ args.indices[i] < args.groupLen

\* the bone slot i names
SlotBone(i) == SlotsBoneGroup(args).bones[args.indices[i] + 1]

\* C19: in parseVertices, for a mesh whose format has boneWeights and
\* boneIndices, slot i contributes boneGroup.bones[index[i]] -> weight[i]
\* to the vertex's boneMapping exactly when weight[i] > 1e-6 and index[i] is
\* less than the number of bones of the group; a slot with an index out of
\* range is dropped without failing the read; the boneMapping is never null
\* (it is empty when every slot is dropped) and references only bones of
\* the mesh's boneGroup. Of two slots naming the same bone the later one
\* gives the weight.
C19_BoneMapping ==
    phase = "parsed" =>
        /\ ret.err = NoError
        /\ Len(ret.val) = 1
        /\ ret.val[1].boneMapping # None
        /\ LET mapping == The(ret.val[1].boneMapping)
               slots == {i \in 1..4 : Contributes(i)}
           IN  /\ {mapping[k][1] : k \in DOMAIN mapping} = {SlotBone(i) : i \in slots}
               /\ \A k, l \in DOMAIN mapping : mapping[k][1] = mapping[l][1] => k = l
               /\ \A k \in DOMAIN mapping :
                     \E i \in slots :
                         /\ SlotBone(i) = mapping[k][1]
                         /\ mapping[k][2] = [num |-> args.weights[i], den |-> 255]
                         /\ \A j \in slots : SlotBone(j) = SlotBone(i) => j <= i
               /\ \A k \in DOMAIN mapping : mapping[k][1] \in Range(SlotsBoneGroup(args).bones)
               /\ (slots = {}) = (mapping = <<>>)

\* C19 witness: of four slots with weights, the one whose index is past the
\* two bones of the group has been dropped and the others are mapped.
C19_Witness ==
    /\ phase = "parsed"
    /\ args.groupLen = 2
    /\ args.weights = <<255, 1, 1, 0>>
    /\ args.indices = <<1, 2, 0, 0>>
    /\ ret.err = NoError
    /\ The(ret.val[1].boneMapping) =
          <<<<MaxSkeletonBones - 2, [num |-> 255, den |-> 255]>>,
            <<MaxSkeletonBones - 1, [num |-> 1, den |-> 255]>>>>

\* every slot has been dropped, its index being out of range, and the
\* mapping is the empty one
C19_AllDropped ==
    /\ phase = "parsed"
    /\ \A i \in 1..4 : args.weights[i] = 255 /\ args.indices[i] >= args.groupLen
    /\ ret.err = NoError
    /\ ret.val[1].boneMapping = Some(<<>>)


(***************************************************************************)
(* parseMeshes on the vertex format of a mesh                              *)
(***************************************************************************)
MaxFormatEntries == 4

\* the datum types a format is made of
FormatTypes ==
    {FmdlVertexDatumType.position, FmdlVertexDatumType.boneWeights,
     FmdlVertexDatumType.boneIndices, FmdlVertexDatumType.uv0, FmdlVertexDatumType.uv1,
     FmdlVertexDatumType.uv2, FmdlVertexDatumType.uv3}

\* the datum types of the block-11 records of the mesh, in order
FormatInputs == UNION {[1..n -> FormatTypes] : n \in 0..MaxFormatEntries}

\* a container with one mesh of one vertex and no face, one bone group, and
\* the format given, each entry in the datum format its type asks for, over
\* a vertex block of zeros
FormatsContainer(types) ==
    [NewContainer EXCEPT
        !.seg0 = (3 :> <<MeshRecord(0, 0, 0, 0, 0, 1, 0, 0, 0)>>)
              @@ (5 :> <<BoneGroupRecord(<<0>>)>>)
              @@ (9 :> <<MeshFormatAssignmentRecord(1, Len(types), 0, 0, 0)>>)
              @@ (10 :> <<MeshFormatRecord(0, Len(types), 16, 0, 0)>>)
              @@ (11 :> [k \in DOMAIN types |->
                            VertexFormatRecord(types[k], ExpectedFormat(types[k]),
                                               4 * (k - 1))])
              @@ (14 :> <<Zeros(16), Zeros(16), PackUInt(0, 4) \o PackUInt(0, 4)
                                                    \o PackUInt(64, 4) \o Zeros(4)>>)
              @@ (16 :> <<PackUInt(1, 4) \o FloatOne \o FloatOne \o FloatOne>>)
              @@ (17 :> <<Zeros(8)>>),
        !.seg1 = (2 :> Zeros(64))]

FormatsInit ==
    /\ ContainerIdle /\ ModelIdle
    /\ args \in FormatInputs
    /\ ret = <<>>
    /\ phase = "new"

\* FmdlFile.parseMeshes on the container, with one bone and one material
\* instance
ParseMeshes ==
    /\ phase = "new"
    /\ ret' = parseMeshes(FormatsContainer(args), <<0>>, <<0>>)
    /\ phase' = "parsed"
    /\ UNCHANGED <<containerVars, modelVars, args>>

FormatsNext == ParseMeshes

FormatsSpec == FormatsInit /\ [][FormatsNext]_vars

\* the format has an entry of the type
Lists(datumType) == datumType \in Range(args)

\* a datumType twice, uv(i) without uv(i-1), or one of boneWeights and
\* boneIndices without the other
Malformed ==
    \/ \E k, l \in DOMAIN args : k # l /\ args[k] = args[l]
    \/ \E i \in 1..3 : /\ Lists(FmdlVertexDatumType.uv0 + i)
                       /\ ~Lists(FmdlVertexDatumType.uv0 + i - 1)
    \/ Lists(FmdlVertexDatumType.boneWeights) # Lists(FmdlVertexDatumType.boneIndices)

\* C20: parseMeshes rejects a mesh whose format lists a datumType twice, has
\* uv(i) without uv(i-1) for some i in 1..3, or has exactly one of
\* boneWeights and boneIndices; for every mesh it returns, the uv channels
\* present are exactly uv0..uv(uvCount-1) and every vertex of the mesh has
\* len(uv) = vertexFields.uvCount.
C20_FormatChecked ==
    phase = "parsed" =>
        /\ Malformed => ret.err.exc = "InvalidFmdl"
        /\ ~Malformed => ret.err = NoError /\ Len(ret.val) = 1
        /\ ret.err = NoError =>
              \A m \in DOMAIN ret.val :
                  /\ {i \in 0..3 : Lists(FmdlVertexDatumType.uv0 + i)}
                        = 0..(ret.val[m].vertexFields.uvCount - 1)
                  /\ Len(ret.val[m].vertices) = 1
                  /\ \A v \in DOMAIN ret.val[m].vertices :
                        Len(ret.val[m].vertices[v].uv) = ret.val[m].vertexFields.uvCount

\* C20 witness: a mesh whose format lists uv1, position and uv0 has been
\* returned with uvCount 2 and a vertex of two uvs.
C20_Witness ==
    /\ phase = "parsed"
    /\ args = <<FmdlVertexDatumType.uv1, FmdlVertexDatumType.position,
                FmdlVertexDatumType.uv0>>
    /\ ret.err = NoError
    /\ ret.val[1].vertexFields.uvCount = 2
    /\ Len(ret.val[1].vertices[1].uv) = 2

\* a format with uv2 and uv0 but no uv1 has been rejected
C20_Gap ==
    /\ phase = "parsed"
    /\ args = <<FmdlVertexDatumType.uv0, FmdlVertexDatumType.uv2>>
    /\ ret.err = InvalidFmdl("Non-monotonic UV map in vertex format definition: has uv2 but not uv1")

\* a format with boneIndices and no boneWeights has been rejected
C20_HalfSkinned ==
    /\ phase = "parsed"
    /\ args = <<FmdlVertexDatumType.position, FmdlVertexDatumType.boneIndices>>
    /\ ret.err.exc = "InvalidFmdl"

\* a format with uv0 to uv3 has been accepted
C20_FourChannels ==
    /\ phase = "parsed"
    /\ ret.err = NoError
    /\ ret.val[1].vertexFields.uvCount = 4


(***************************************************************************)
(* parseMeshes on a format entry in another datum format                   *)
(***************************************************************************)
MaxBoundVertices == 2

\* the datum types in the order the format lists them
BoundTypes ==
    <<FmdlVertexDatumType.position, FmdlVertexDatumType.normal, FmdlVertexDatumType.color,
      FmdlVertexDatumType.boneWeights, FmdlVertexDatumType.boneIndices,
      FmdlVertexDatumType.uv0, FmdlVertexDatumType.uv1, FmdlVertexDatumType.uv2,
      FmdlVertexDatumType.uv3, FmdlVertexDatumType.tangent>>

\* the datum type whose entry carries the datum format given, and the
\* number of vertices of the mesh
BindingInputs ==
    [datumType : Range(BoundTypes), datumFormat : Range(FmdlVertexDatumFormat),
     vertexCount : 0..MaxBoundVertices]

\* a container with one mesh whose format lists every datum type once, each
\* in the datum format bound to it but for the one of a, over a vertex block
\* of zeros that holds every datum of every vertex
BindingsContainer(a) ==
    [NewContainer EXCEPT
        !.seg0 = (3 :> <<MeshRecord(0, 0, 0, 0, 0, a.vertexCount, 0, 0, 0)>>)
              @@ (5 :> <<BoneGroupRecord(<<0>>)>>)
              @@ (9 :> <<MeshFormatAssignmentRecord(1, Len(BoundTypes), 0, 0, 0)>>)
              @@ (10 :> <<MeshFormatRecord(0, Len(BoundTypes), 16, 0, 0)>>)
              @@ (11 :> [k \in DOMAIN BoundTypes |->
                            VertexFormatRecord(BoundTypes[k],
                                IF BoundTypes[k] = a.datumType THEN a.datumFormat
                                ELSE ExpectedFormat(BoundTypes[k]), 0)])
              @@ (14 :> <<Zeros(16), Zeros(16),
                          PackUInt(0, 4) \o PackUInt(0, 4)
                              \o PackUInt(16 * (MaxBoundVertices + 1), 4) \o Zeros(4)>>)
              @@ (16 :> <<PackUInt(1, 4) \o FloatOne \o FloatOne \o FloatOne>>)
              @@ (17 :> <<Zeros(8)>>),
        !.seg1 = (2 :> Zeros(16 * (MaxBoundVertices + 1)))]

BindingsInit ==
    /\ ContainerIdle /\ ModelIdle
    /\ args \in BindingInputs
    /\ ret = <<>>
    /\ phase = "new"

\* FmdlFile.parseMeshes on the container, with one bone and one material
\* instance
ParseBoundMeshes ==
    /\ phase = "new"
    /\ ret' = parseMeshes(BindingsContainer(args), <<0>>, <<0>>)
    /\ phase' = "parsed"
    /\ UNCHANGED <<containerVars, modelVars, args>>

BindingsNext == ParseBoundMeshes

BindingsSpec == BindingsInit /\ [][BindingsNext]_vars

\* the entry of a.datumType is in a datum format other than the one bound
\* to the type
Deviates(a) == a.datumFormat # ExpectedFormat(a.datumType)

\* C21: reading a mesh whose format pairs a datumType with a datumFormat
\* other than the one bound to it (position: tripleFloat32; normal, tangent:
\* quadFloat16; color, boneWeights: quadFloat8; boneIndices: quadInt8;
\* uv0..uv3: doubleFloat16) fails with InvalidFmdl, however many vertices the
\* mesh has.
C21_FormatBound ==
    (phase = "parsed" /\ Deviates(args)) => ret.err.exc = "InvalidFmdl"

\* the same for the meshes that have a vertex: the test is made on the
\* datum of a vertex
C21_BoundPerVertex ==
    (phase = "parsed" /\ Deviates(args) /\ args.vertexCount > 0)
        => ret.err.exc = "InvalidFmdl"

\* a mesh of no vertex whose position is in quadFloat8 has been returned
C21_Unchecked ==
    /\ phase = "parsed"
    /\ args.vertexCount = 0
    /\ args.datumType = FmdlVertexDatumType.position
    /\ args.datumFormat = FmdlVertexDatumFormat.quadFloat8
    /\ ret.err = NoError
    /\ Len(ret.val) = 1


(***************************************************************************)
(* storeMeshes on a list of meshes                                         *)
(***************************************************************************)
MaxStoredMeshes == 2

\* a mesh of the list: its kind (as for ModelInputs), whether it has
\* normals, the number of its vertices and its faces
MeshShapes ==
    {s \in [kind : {"skinned", "boneless", "unskinned"}, hasNormal : BOOLEAN,
            vertexCount : {0, 3},
            faces : {<<>>, <<<<0, 1, 2>>>>, <<<<2, 1, 0>>, <<0, 2, 1>>>>}] :
        s.faces # <<>> => s.vertexCount = 3}

MeshShapeLists == UNION {[1..n -> MeshShapes] : n \in 0..MaxStoredMeshes}

\* the k-th mesh of the list: its vertices carry k in their position
StoredMesh(s, k) ==
    LET base == [kind |-> s.kind, hasNormal |-> s.hasNormal, uv |-> "none"] IN
    [vertices |-> [v \in 1..s.vertexCount |-> ModelVertex(base, k, v)],
     faces |-> s.faces,
     boneGroup |-> IF s.kind = "skinned" THEN Some([bones |-> <<0>>])
                   ELSE IF s.kind = "boneless" THEN Some([bones |-> <<>>])
                   ELSE None,
     materialInstance |-> 0, alphaEnum |-> 0, shadowEnum |-> k,
     vertexFields |-> ModelVertexFields(base)]

StoredMeshes(shapes) == [k \in DOMAIN shapes |-> StoredMesh(shapes[k], k)]

StoredInit ==
    /\ ContainerIdle /\ ModelIdle
    /\ args \in MeshShapeLists
    /\ ret = <<>>
    /\ phase = "new"

\* FmdlFile.storeMeshes on the container of writeFile, which is dropped when
\* storeMeshes raises; ret is meshIndices
StoreMeshes ==
    /\ phase = "new"
    /\ \E stored \in {storeMeshes(NewContainer, StoredMeshes(args))} :
          IF stored.err = NoError
          THEN /\ segment0Blocks' = stored.fmdl.seg0
               /\ segment1Blocks' = stored.fmdl.seg1
               /\ ret' = stored.ID
               /\ phase' = "stored"
               /\ UNCHANGED raised
          ELSE /\ raised' = stored.err
               /\ phase' = "failed"
               /\ UNCHANGED <<segment0Blocks, segment1Blocks, ret>>
    /\ UNCHANGED <<stream, loaded, bones, materialInstances, meshes, meshGroups,
                   firstRead, args>>


\* the position buffer the meshes ask for: per mesh the positions of its
\* vertices, 12 bytes each, padded to a multiple of 16 bytes
ExpectedPositions(meshList) ==
    Concat([k \in DOMAIN meshList |->
        Pad16(Concat([v \in DOMAIN meshList[k].vertices |->
                  Concat(The(meshList[k].vertices[v].position))]))])

\* the bytes a vertex of the mesh takes in the data buffer: 8 for a normal,
\* 4 + 4 for the bone weights and indices
DataStride(mesh) ==
    (IF mesh.vertexFields.hasNormal THEN 8 ELSE 0)
        + (IF mesh.vertexFields.hasBoneMapping THEN 8 ELSE 0)

RECURSIVE ExpectedDataLength(_)
\* the length of the data buffer: per mesh its vertices times the stride,
\* rounded up to a multiple of 16
ExpectedDataLength(meshList) ==
    IF meshList = <<>> THEN 0
    ELSE ((Len(Head(meshList).vertices) * DataStride(Head(meshList)) + 15) \div 16) * 16
            + ExpectedDataLength(Tail(meshList))

\* the face buffer the meshes ask for: three 16-bit indices per face
ExpectedFaces(meshList) ==
    Concat([k \in DOMAIN meshList |->
        Concat([i \in DOMAIN meshList[k].faces |->
            PackUInt(meshList[k].faces[i][1], 2) \o PackUInt(meshList[k].faces[i][2], 2)
                \o PackUInt(meshList[k].faces[i][3], 2)])])

\* the fields (last, length, offset) of the i-th record of block 14
BufferRecord(i) ==
    [last |-> UnpackUInt(segment0Blocks[14][i], 0, 4),
     length |-> UnpackUInt(segment0Blocks[14][i], 4, 4),
     offset |-> UnpackUInt(segment0Blocks[14][i], 8, 4)]

\* C22: after storeMeshes has returned for a list of meshes, the empty list
\* included, block 14 holds exactly three records in the order position,
\* data, face with the offsets 0, len(position buffer), len(position
\* buffer) + len(data buffer), with the lengths of the three buffers, and
\* with the third alone flagged last; block 2 of segment 1 is position ++
\* data ++ face, its length the sum of the three lengths.
C22_BufferTable ==
    phase \in {"stored", "facesread"} =>
        LET meshList == StoredMeshes(args)
            positions == ExpectedPositions(meshList)
            dataLength == ExpectedDataLength(meshList)
            faces == ExpectedFaces(meshList)
        IN  /\ 14 \in DOMAIN segment0Blocks /\ 2 \in DOMAIN segment1Blocks
            /\ Len(segment0Blocks[14]) = 3
            /\ \A i \in 1..3 : Len(segment0Blocks[14][i]) = 16
            /\ BufferRecord(1) = [last |-> 0, length |-> Len(positions), offset |-> 0]
            /\ BufferRecord(2) = [last |-> 0, length |-> dataLength,
                                  offset |-> Len(positions)]
            /\ BufferRecord(3) = [last |-> 1, length |-> Len(faces),
                                  offset |-> Len(positions) + dataLength]
            /\ Len(segment1Blocks[2]) = Len(positions) + dataLength + Len(faces)
            /\ SubSeq(segment1Blocks[2], 1, Len(positions)) = positions
            /\ SubSeq(segment1Blocks[2], Len(positions) + dataLength + 1,
                      Len(segment1Blocks[2])) = faces

\* C22 witness: two meshes have been stored, the three buffers are 96, 80
\* and 18 bytes long, and the face buffer starts at byte 176 of block 2.
C22_Witness ==
    /\ phase = "stored"
    /\ Len(args) = 2
    /\ args[1].kind = "skinned" /\ args[1].hasNormal /\ Len(args[1].faces) = 2
    /\ args[2].kind = "boneless" /\ args[2].hasNormal /\ Len(args[2].faces) = 1
    /\ BufferRecord(1).length = 96
    /\ BufferRecord(2) = [last |-> 0, length |-> 80, offset |-> 96]
    /\ BufferRecord(3) = [last |-> 1, length |-> 18, offset |-> 176]
    /\ Len(segment1Blocks[2]) = 194

\* the empty list has been stored: three records of length 0 and offset 0,
\* the third flagged last, and an empty block 2
C22_NoMesh ==
    /\ phase = "stored"
    /\ args = <<>>
    /\ Len(segment0Blocks[14]) = 3
    /\ BufferRecord(3) = [last |-> 1, length |-> 0, offset |-> 0]
    /\ segment1Blocks[2] = <<>>

\* storeMeshes has raised on a mesh without a bone group
C22_Raised ==
    /\ phase = "failed"
    /\ raised.exc = "AttributeError"

\* FmdlFile.parseMeshes on the container storeMeshes has filled, with one
\* bone and one material instance
ParseStoredMeshes ==
    /\ phase = "stored"
    /\ ret' = parseMeshes(Built, <<0>>, <<0>>)
    /\ phase' = "facesread"
    /\ UNCHANGED <<containerVars, modelVars, args>>

StoredNext == StoreMeshes \/ ParseStoredMeshes

StoredSpec == StoredInit /\ [][StoredNext]_vars

\* the fields of the record of the k-th mesh in block 3 that are about faces
FaceFields(k) ==
    [firstFaceVertexIndex |-> UnpackUInt(segment0Blocks[3][k], 16, 4),
     faceVertexCount |-> UnpackUInt(segment0Blocks[3][k], 20, 4),
     firstFaceIndexID |-> UnpackUInt(segment0Blocks[3][k], 24, 8)]

RECURSIVE FacesBefore(_, _)
\* the number of faces of the meshes before the k-th
FacesBefore(shapes, k) ==
    IF k <= 1 THEN 0 ELSE FacesBefore(shapes, k - 1) + Len(shapes[k - 1].faces)

\* C25: for any sequence of meshes written by storeMeshes, the record of
\* mesh k carries firstFaceVertexIndex = (byte length of the shared face
\* buffer before mesh k) / 2 and faceVertexCount = 3 * its number of faces,
\* its block-17 record is (0, 3 * its number of faces), and reading with
\* these values and the base offset of the face buffer gives exactly the
\* triangles of mesh k in order, each index the position of the same
\* vertex in the vertex list of mesh k, never triangles of another mesh.
C25_FacesOfMesh ==
    phase \in {"stored", "facesread"} =>
        /\ args # <<>> => Len(segment0Blocks[3]) = Len(args)
        /\ \A k \in DOMAIN args :
              /\ FaceFields(k).firstFaceVertexIndex = (6 * FacesBefore(args, k)) \div 2
              /\ FaceFields(k).faceVertexCount = 3 * Len(args[k].faces)
              /\ FaceFields(k).firstFaceIndexID < Len(segment0Blocks[17])
              /\ At(segment0Blocks[17], FaceFields(k).firstFaceIndexID)
                    = PackUInt(0, 4) \o PackUInt(3 * Len(args[k].faces), 4)
        /\ phase = "facesread" =>
              /\ ret.err = NoError
              /\ Len(ret.val) = Len(args)
              /\ \A k \in DOMAIN args :
                    /\ ret.val[k].faces = args[k].faces
                    /\ [v \in DOMAIN ret.val[k].vertices |-> ret.val[k].vertices[v].position]
                          = [v \in 1..args[k].vertexCount |->
                                StoredMesh(args[k], k).vertices[v].position]

\* C25 witness: the second of two meshes, with one face after the two
\* faces of the first, has firstFaceVertexIndex 6 and has been read back
\* with its own triangle.
C25_Witness ==
    /\ phase = "facesread"
    /\ Len(args) = 2
    /\ Len(args[1].faces) = 2 /\ args[2].faces = <<<<0, 1, 2>>>>
    /\ FaceFields(2).firstFaceVertexIndex = 6
    /\ FaceFields(2).firstFaceIndexID = 1
    /\ ret.err = NoError
    /\ ret.val[2].faces = <<<<0, 1, 2>>>>
    /\ ret.val[1].faces = <<<<2, 1, 0>>, <<0, 2, 1>>>>


(***************************************************************************)
(* readFile into an FmdlFile that holds a model already                    *)
(***************************************************************************)
\* the models of the files, and of the FmdlFile before the call
ReloadModels ==
    {[boneCount |-> 2, meshCount |-> 1, groupCount |-> 2, kind |-> "skinned",
      hasNormal |-> TRUE, uv |-> "distinct"],
     [boneCount |-> 1, meshCount |-> 0, groupCount |-> 1, kind |-> "boneless",
      hasNormal |-> FALSE, uv |-> "none"]}

\* what a file lacks: one block of segment 0, the vertex block or the string
\* block of segment 1, or everything after its first 40 bytes
Damages ==
    [dropped0 : {{}} \cup {{id} : id \in (0..14) \cup {16, 17}},
     dropped1 : {{}, {2}, {3}},
     cut : BOOLEAN]

\* the file written for the model b, with the damage d
DamagedFile(b, d) ==
    LET built == BuildContainer(ModelBones(b), ModelMaterialInstances(b),
                     ModelMeshes(b), ModelMeshGroups(b)).fmdl
        file == writeStream([built EXCEPT
                    !.seg0 = [id \in DOMAIN built.seg0 \ d.dropped0 |-> built.seg0[id]],
                    !.seg1 = [id \in DOMAIN built.seg1 \ d.dropped1 |-> built.seg1[id]]])
    IN  IF d.cut THEN SubSeq(file, 1, 40) ELSE file

\* the client fills the four fields of a new FmdlFile
SetFields(a) ==
    /\ phase = "new"
    /\ bones' = ModelBones(a)
    /\ materialInstances' = ModelMaterialInstances(a)
    /\ meshes' = ModelMeshes(a)
    /\ meshGroups' = ModelMeshGroups(a)
    /\ phase' = "built"
    /\ UNCHANGED <<containerVars, raised, firstRead, callVars>>

\* the file readFile is then given; args keep what it was made of
OpenFile(b, d) ==
    /\ phase \in {"new", "built"}
    /\ Cardinality(d.dropped0) + Cardinality(d.dropped1) + (IF d.cut THEN 1 ELSE 0) <= 1
    /\ stream' = DamagedFile(b, d)
    /\ args' = [model |-> b, damage |-> d]
    /\ phase' = "crafted"
    /\ UNCHANGED <<segment0Blocks, segment1Blocks, loaded, modelVars, ret>>

ReloadNext ==
    \/ \E a \in ReloadModels : SetFields(a)
    \/ \E b \in ReloadModels, d \in Damages : OpenFile(b, d)
    \/ ReadFile

ReloadSpec == FileInit /\ [][ReloadNext]_vars

\* the model the file of args was written for, without the bones or the
\* mesh groups if their block was dropped
ModelOpened ==
    [bones |-> IF 0 \in args.damage.dropped0 THEN <<>> ELSE ModelBones(args.model),
     materialInstances |-> ModelMaterialInstances(args.model),
     meshes |-> ModelMeshes(args.model),
     meshGroups |-> IF 1 \in args.damage.dropped0 THEN <<>>
                    ELSE ModelMeshGroups(args.model)]

\* C23: if readFile fails at any stage (the read of the container, or a
\* parse step), bones, materialInstances, meshes and meshGroups keep the
\* values they had before the call; the four fields are replaced only when
\* every stage has succeeded, and then all four together, by the model of
\* the file.
C23_AllOrNothing ==
    [][phase = "crafted" =>
          IF raised' # NoError
          THEN <<bones, materialInstances, meshes, meshGroups>>'
                   = <<bones, materialInstances, meshes, meshGroups>>
          ELSE SameModel(CurrentModel', ModelOpened')]_vars

\* C23 witness: an FmdlFile that held a bone and a mesh group has failed to
\* read a file of two bones at the stage of the meshes, and holds what it
\* held.
C23_Witness ==
    /\ phase = "readfailed"
    /\ raised = InvalidFmdl("Level Of Detail specification missing")
    /\ Len(bones) = 1 /\ Len(meshGroups) = 1 /\ meshes = <<>>
    /\ args.model.boneCount = 2


(***************************************************************************)
(* storeBones and storeMeshGroups on entities with parents                 *)
(***************************************************************************)
MaxLinked == 3
MaxBefore == 1

RECURSIVE Climbs(_, _, _)
\* from the i-th entity a walk of at most steps parents ends at a root
Climbs(parents, i, steps) ==
    IF parents[i] = None THEN TRUE
    ELSE IF steps = 0 THEN FALSE
    ELSE Climbs(parents, The(parents[i]) + 1, steps - 1)

\* for every entity of a list its parent, None or the position of an entity
\* of the list, before or after it, without a loop
ParentLists ==
    UNION {{parents \in [1..n -> {None} \cup {Some(j) : j \in 0..(n - 1)}] :
               \A i \in 1..n : Climbs(parents, i, n)} : n \in 0..MaxLinked}

\* what is stored, how many entities the block holds before, and the parents
LinkInputs ==
    [block : {0, 1}, before : 0..MaxBefore, parents : ParentLists]

\* the bones with the parents given, named from the letter first on
LinkedBones(parents, first) ==
    [i \in DOMAIN parents |->
        [name |-> <<first + i>>,
         boundingBox |-> [oid |-> i - 1, min |-> Zeros(16), max |-> Zeros(15) \o <<i>>],
         localPosition |-> Zeros(16), globalPosition |-> <<i>> \o Zeros(15),
         parent |-> parents[i], children |-> Children(parents, i - 1)]]

\* the mesh groups with the parents given, without meshes
LinkedMeshGroups(parents, first) ==
    [i \in DOMAIN parents |->
        [name |-> <<first + i>>, visible |-> TRUE,
         parent |-> parents[i], children |-> Children(parents, i - 1),
         meshes |-> <<>>,
         boundingBox |-> Some([oid |-> i - 1, min |-> Zeros(16),
                               max |-> Zeros(15) \o <<i>>])]]

\* storeBones or storeMeshGroups of the entities on a container
StoreLinked(fmdl, block, parents, first) ==
    IF block = 0 THEN storeBones(fmdl, LinkedBones(parents, first))
    ELSE storeMeshGroups(fmdl, LinkedMeshGroups(parents, first), <<>>)

LinksInit ==
    /\ ContainerIdle /\ ModelIdle
    /\ args \in LinkInputs
    /\ ret = <<>>
    /\ phase = "new"

\* FmdlFile.storeBones or FmdlFile.storeMeshGroups of the list, on a
\* container in which args.before roots were stored by a call before
StoreEntities ==
    /\ phase = "new"
    /\ \E held \in {StoreLinked(addString(NewContainer, <<>>).fmdl, args.block,
                                [i \in 1..args.before |-> None], 64)} :
       \E stored \in {StoreLinked(held.fmdl, args.block, args.parents, 96)} :
          /\ segment0Blocks' = stored.fmdl.seg0
          /\ segment1Blocks' = stored.fmdl.seg1
          /\ raised' = stored.err
    /\ phase' = "stored"
    /\ UNCHANGED <<stream, loaded, bones, materialInstances, meshes, meshGroups,
                   firstRead, callVars>>

\* FmdlFile.parseBones or FmdlFile.parseMeshGroups on the container
ParseEntities ==
    /\ phase = "stored"
    /\ \E strings \in {parseStrings(Built)} :
          ret' = IF strings.err # NoError THEN strings
                 ELSE IF args.block = 0
                 THEN parseBones(Built, strings.val, parseBoundingBoxes(Built).val)
                 ELSE parseMeshGroups(Built, strings.val, parseBoundingBoxes(Built).val, 0)
    /\ phase' = "parsed"
    /\ UNCHANGED <<containerVars, modelVars, args>>

LinksNext == StoreEntities \/ ParseEntities

LinksSpec == LinksInit /\ [][LinksNext]_vars

\* the parent field of the record with the index given, of block 0 ('< H h')
\* or of block 1 ('< H H h')
ParentField(index) ==
    UnpackInt16(At(segment0Blocks[args.block], index), IF args.block = 0 THEN 2 ELSE 4)

\* C24: in storeBones (block 0) and storeMeshGroups (block 1), for a list
\* of distinct entities, the index given to each entity beforehand is the
\* ID at which its record is appended, so the parent field written for an
\* entity whose parent is in the list is the index of the record of that
\* parent (also when the parent comes later in the list), and -1 for an
\* entity without parent; reading the block gives the same parent links.
C24_ParentIndices ==
    phase \in {"stored", "parsed"} =>
        /\ raised = NoError
        /\ args.before + Len(args.parents) > 0 =>
              Len(segment0Blocks[args.block]) = args.before + Len(args.parents)
        /\ \A i \in DOMAIN args.parents :
              ParentField(args.before + i - 1) =
                  IF args.parents[i] = None THEN -1
                  ELSE args.before + The(args.parents[i])
        /\ phase = "parsed" =>
              /\ ret.err = NoError
              /\ Len(ret.val) = args.before + Len(args.parents)
              /\ \A i \in DOMAIN args.parents :
                    /\ ret.val[args.before + i].name = <<96 + i>>
                    /\ ret.val[args.before + i].parent =
                          IF args.parents[i] = None THEN None
                          ELSE Some(args.before + The(args.parents[i]))

\* C24 witness: three bones, the first a child of the third and the third
\* a child of the second, have been stored after a bone and read back.
C24_Witness ==
    /\ phase = "parsed"
    /\ args.block = 0 /\ args.before = 1
    /\ args.parents = <<Some(2), None, Some(1)>>
    /\ ParentField(1) = 3 /\ ParentField(2) = -1 /\ ParentField(3) = 2
    /\ ret.val[2].parent = Some(3)

\* the same for three mesh groups
C24_MeshGroups ==
    /\ phase = "parsed"
    /\ args.block = 1 /\ args.before = 1
    /\ args.parents = <<Some(2), None, Some(1)>>
    /\ ParentField(1) = 3 /\ ParentField(2) = -1 /\ ParentField(3) = 2
    /\ ret.val[2].parent = Some(3)


(***************************************************************************)
(* storeMaterialInstances on a new container, then parseStrings and        *)
(* parseMaterialInstances on the blocks it has filled                      *)
(***************************************************************************)
MaxStoredInstances == 2

\* the textures and parameters of an instance: how many of each, whether
\* the two textures are in the other order, whether two roles are equal
InstanceShapes ==
    {s \in [textureCount : 0..2, parameterCount : 0..2,
            swapped : BOOLEAN, sameRole : BOOLEAN] :
        (s.swapped \/ s.sameRole) => s.textureCount = 2}

InstanceShapeLists ==
    UNION {[1..n -> InstanceShapes] : n \in 0..MaxStoredInstances}

\* the k-th instance of a list: its name, the file names of its textures
\* and the values of its parameters carry k
StoredInstance(s, k) ==
    LET texture(t) == <<IF s.sameRole THEN <<114>> ELSE <<114, 48 + t>>,
                        [filename |-> <<102, 48 + k, 48 + t>>, directory |-> <<100>>]>>
        parameter(q) == <<<<112, 48 + q>>, Zeros(14) \o <<k, q>>>>
    IN  [name |-> <<109, 48 + k>>, technique |-> <<116>>, shader |-> <<115>>,
         textures |-> [t \in 1..s.textureCount |->
                          texture(IF s.swapped THEN 3 - t ELSE t)],
         parameters |-> [q \in 1..s.parameterCount |-> parameter(q)]]

StoredInstances(shapes) == [k \in DOMAIN shapes |-> StoredInstance(shapes[k], k)]

InstancesInit ==
    /\ ContainerIdle /\ ModelIdle
    /\ args \in InstanceShapeLists
    /\ ret = <<>>
    /\ phase = "new"

\* FmdlFile.storeMaterialInstances on a new container
StoreMaterialInstances ==
    /\ phase = "new"
    /\ \E stored \in {storeMaterialInstances(NewContainer, StoredInstances(args))} :
          /\ stored.err = NoError
          /\ segment0Blocks' = stored.fmdl.seg0
          /\ segment1Blocks' = stored.fmdl.seg1
    /\ phase' = "stored"
    /\ UNCHANGED <<stream, loaded, modelVars, callVars>>

\* FmdlFile.parseStrings and FmdlFile.parseMaterialInstances as readFile
\* calls them, on the container storeMaterialInstances has filled
ParseStoredInstances ==
    /\ phase = "stored"
    /\ ret' = Then(parseStrings(Built), LAMBDA strings :
                   parseMaterialInstances(Built, strings.val))
    /\ phase' = "parsed"
    /\ UNCHANGED <<containerVars, modelVars, args>>

InstancesNext == StoreMaterialInstances \/ ParseStoredInstances

InstancesSpec == InstancesInit /\ [][InstancesNext]_vars

\* the fields of the record of the k-th instance in block 4
InstanceFields(k) ==
    [textureCount |-> UnpackUInt(segment0Blocks[4][k], 6, 1),
     materialParameterCount |-> UnpackUInt(segment0Blocks[4][k], 7, 1),
     firstTextureID |-> UnpackUInt(segment0Blocks[4][k], 8, 2),
     firstMaterialParameterID |-> UnpackUInt(segment0Blocks[4][k], 10, 2)]

\* the IDs of the block-7 records the record of the k-th instance names
InstanceRange(k) ==
    (InstanceFields(k).firstTextureID
        .. (InstanceFields(k).firstTextureID + InstanceFields(k).textureCount - 1))
    \cup (InstanceFields(k).firstMaterialParameterID
        .. (InstanceFields(k).firstMaterialParameterID
               + InstanceFields(k).materialParameterCount - 1))

RECURSIVE AssignmentsBefore(_, _)
\* the number of block-7 records of the instances before the k-th
AssignmentsBefore(shapes, k) ==
    IF k <= 1 THEN 0
    ELSE AssignmentsBefore(shapes, k - 1)
             + shapes[k - 1].textureCount + shapes[k - 1].parameterCount

C26_SameRole ==
    /\ phase = "parsed"
    /\ Len(args) = 1 /\ args[1].sameRole
    /\ ret.err = NoError
    /\ ret.val[1].textures[1][1] = ret.val[1].textures[2][1]
    /\ ret.val[1].textures[1][2] # ret.val[1].textures[2][2]


(***************************************************************************)
(* addMeshFormatAssignment for the vertex fields of a mesh, then           *)
(* parseMeshFormatAssignments on the blocks 9, 10 and 11 it has filled     *)
(***************************************************************************)

\* what uvEqualities may hold for a channel: nothing, an earlier or later
\* channel, the channel itself, two channels
AliasChoices == {<<>>, <<0>>, <<1>>, <<2, 3>>}

\* the vertex fields of the mesh, and whether the assignment of another
\* mesh has been added before
VertexFieldsInputs ==
    [hasNormal : BOOLEAN, hasTangent : BOOLEAN, hasColor : BOOLEAN,
     hasBoneMapping : BOOLEAN, uvCount : 0..UvChannels,
     uvEqualities : UNION {[0..(n - 1) -> AliasChoices] : n \in 0..UvChannels},
     before : BOOLEAN]

\* bufferOffsets as parseBufferOffsets gives them: where the position, data
\* and face buffers start in segment-1 block 2
BufferBases == <<0, 64, 160>>

\* where the vertices of the mesh start in the position and the data buffer
MeshOffsets(a) == IF a.before THEN <<48, 32>> ELSE <<0, 0>>

\* the container the assignment is added to: new, or with the assignment of
\* a mesh with normals and one uv
ContainerBefore(a) ==
    IF a.before
    THEN addMeshFormatAssignment(NewContainer,
             [hasNormal |-> TRUE, hasTangent |-> FALSE, hasColor |-> FALSE,
              hasBoneMapping |-> FALSE, uvCount |-> 1, uvEqualities |-> <<>>],
             0, 0).fmdl
    ELSE NewContainer

FieldsInit ==
    /\ ContainerIdle /\ ModelIdle
    /\ args \in {a \in VertexFieldsInputs : DOMAIN a.uvEqualities = 0..(a.uvCount - 1)}
    /\ ret = <<>>
    /\ phase = "new"

\* FmdlFile.addMeshFormatAssignment; ret is what it returns
AddMeshFormatAssignment ==
    /\ phase = "new"
    /\ \E added \in {addMeshFormatAssignment(ContainerBefore(args), args,
                         MeshOffsets(args)[1], MeshOffsets(args)[2])} :
          /\ added.err = NoError
          /\ segment0Blocks' = added.fmdl.seg0
          /\ segment1Blocks' = added.fmdl.seg1
          /\ ret' = [ID |-> added.ID, formatEntries |-> added.formatEntries,
                     positionBufferEntrySize |-> added.positionBufferEntrySize,
                     dataBufferEntrySize |-> added.dataBufferEntrySize]
    /\ phase' = "added"
    /\ UNCHANGED <<stream, loaded, modelVars, args>>

\* FmdlFile.parseMeshFormatAssignments on the container of the assignment
ParseMeshFormatAssignments ==
    /\ phase = "added"
    /\ ret' = [written |-> ret,
               read |-> parseMeshFormatAssignments(Built, BufferBases)]
    /\ phase' = "parsed"
    /\ UNCHANGED <<containerVars, modelVars, args>>

FieldsNext == AddMeshFormatAssignment \/ ParseMeshFormatAssignments

FieldsSpec == FieldsInit /\ [][FieldsNext]_vars

\* the datum types the vertex fields ask for, in the order of the writer
FieldTypes(a) ==
    <<FmdlVertexDatumType.position>>
    \o (IF a.hasNormal THEN <<FmdlVertexDatumType.normal>> ELSE <<>>)
    \o (IF a.hasTangent THEN <<FmdlVertexDatumType.tangent>> ELSE <<>>)
    \o (IF a.hasColor THEN <<FmdlVertexDatumType.color>> ELSE <<>>)
    \o (IF a.hasBoneMapping
        THEN <<FmdlVertexDatumType.boneWeights, FmdlVertexDatumType.boneIndices>>
        ELSE <<>>)
    \o [i \in 1..a.uvCount |-> FmdlVertexDatumType.uv0 + i - 1]

\* the record of block 9 the assignment has added, by its fields
WrittenAssignment ==
    LET definition == At(segment0Blocks[9], ret.written.ID) IN
    [meshFormatCount |-> UnpackUInt(definition, 0, 1),
     vertexFormatCount |-> UnpackUInt(definition, 1, 1),
     firstMeshFormatID |-> UnpackUInt(definition, 4, 2),
     firstVertexFormatID |-> UnpackUInt(definition, 6, 2)]

RECURSIVE EntryCounts(_, _)
\* the sum of the vertexFormatEntryCount fields of count records of block
\* 10 from the record first on
EntryCounts(first, count) ==
    IF count = 0 THEN 0
    ELSE At(segment0Blocks[10], first)[2] + EntryCounts(first + 1, count - 1)

\* the buffer of a datum type: 0 for the position, 1 for the others
BufferOf(datumType) == IF datumType = FmdlVertexDatumType.position THEN 0 ELSE 1

\* C27: for every VertexFields (any combination of hasNormal, hasTangent,
\* hasColor, hasBoneMapping, uvCount in 0..4 and any uvEqualities, aliased
\* channels included) the records addMeshFormatAssignment adds to the blocks
\* 9, 10 and 11 are accepted by parseMeshFormatAssignments: the
\* vertexFormatEntryCount fields of the block-10 records of the mesh sum to
\* the number of its block-11 records (vertexFormatCount), and every entry
\* read has the datumType, the datumFormat, the absolute offset (base of the
\* buffer + offset of the mesh + offset within the stride) and the stride
\* the writer chose, the stride being 12 for the position and one common
\* stride for the data buffer.
C27_FormatsAccepted ==
    phase = "parsed" =>
        /\ ret.read.err = NoError
        /\ Len(ret.read.val) = Len(segment0Blocks[9])
        /\ LET fields == WrittenAssignment
               entries == At(ret.read.val, ret.written.ID)
               types == FieldTypes(args)
               record(i) == At(segment0Blocks[11], fields.firstVertexFormatID + i - 1)
           IN  /\ EntryCounts(fields.firstMeshFormatID, fields.meshFormatCount)
                     = fields.vertexFormatCount
               /\ fields.vertexFormatCount
                     = Len(segment0Blocks[11]) - fields.firstVertexFormatID
               /\ fields.vertexFormatCount = Len(types)
               /\ Len(entries) = Len(types)
               /\ ret.written.positionBufferEntrySize = 12
               /\ \A i \in DOMAIN entries :
                     /\ entries[i].datumType = types[i]
                     /\ entries[i].datumType = record(i)[1]
                     /\ entries[i].datumFormat = ExpectedFormat(types[i])
                     /\ entries[i].datumFormat = record(i)[2]
                     /\ entries[i].offset
                           = At(BufferBases, BufferOf(types[i]))
                                + MeshOffsets(args)[BufferOf(types[i]) + 1]
                                + UnpackUInt(record(i), 2, 2)
                     /\ entries[i].increment
                           = IF BufferOf(types[i]) = 0
                             THEN ret.written.positionBufferEntrySize
                             ELSE ret.written.dataBufferEntrySize
                     /\ UnpackUInt(record(i), 2, 2) + DatumSize(entries[i].datumFormat)
                           <= entries[i].increment
               /\ \A k \in DOMAIN ret.written.formatEntries :
                     \E i \in DOMAIN entries :
                         LET chosen == ret.written.formatEntries[k] IN
                         /\ entries[i].datumType = chosen.datumType
                         /\ entries[i].datumFormat = chosen.datumFormat
                         /\ BufferOf(types[i]) = chosen.bufferID
                         /\ UnpackUInt(record(i), 2, 2) = chosen.offset

\* C27 witness: after the assignment of another mesh, the assignment of a
\* mesh with every field and four uv channels, uv1 sharing the offset of
\* uv0 and uv3 that of uv2, has been read as ten entries with a data stride
\* of 36.
C27_Witness ==
    /\ phase = "parsed"
    /\ args.before /\ args.hasNormal /\ args.hasTangent /\ args.hasColor
    /\ args.hasBoneMapping /\ args.uvCount = 4
    /\ args.uvEqualities = (0 :> <<>>) @@ (1 :> <<0>>) @@ (2 :> <<1>>) @@ (3 :> <<2, 3>>)
    /\ ret.read.err = NoError
    /\ ret.written.ID = 1
    /\ Len(ret.read.val[2]) = 10
    /\ Len(ret.written.formatEntries) = 8
    /\ ret.written.dataBufferEntrySize = 36
    /\ ret.read.val[2][7] = [datumType |-> FmdlVertexDatumType.uv0,
                             datumFormat |-> FmdlVertexDatumFormat.doubleFloat16,
                             offset |-> 64 + 32 + 28, increment |-> 36]
    /\ ret.read.val[2][8].offset = 64 + 32 + 28
    /\ ret.read.val[2][9].offset = 64 + 32 + 32
    /\ ret.read.val[2][10].offset = 64 + 32 + 32
    /\ ret.read.val[2][1].offset = 48 /\ ret.read.val[2][1].increment = 12


(***************************************************************************)
(* writeStream of a container, then readStream of the stream into a new    *)
(* container                                                               *)
(***************************************************************************)
MaxRoundTripRecords == 2

\* segment-0 ids of the record-size table, and segment-1 ids up to 63
RoundTripIds0 == {11, 12}
RoundTripIds1 == {0, 3, 4, 63}
RoundTripLengths == {0, 5, 16}

\* a dict with the keys ids and the values value(id)
DictOf(ids, value(_)) == IF ids = {} THEN <<>> ELSE [id \in ids |-> value(id)]

\* the segment-0 dicts: under some of the ids, records of the size of the
\* table, every record different
RoundTripSegment0 ==
    UNION {{DictOf(ids, LAMBDA id :
                [k \in 1..count[id] |->
                    [i \in 1..SECTION0_BLOCK_ENTRY_SIZES[id] |-> 16 * k + id]]) :
              count \in [ids -> 0..MaxRoundTripRecords]} :
           ids \in SUBSET RoundTripIds0}

\* the segment-1 dicts: under some of the ids, bytes that differ from block
\* to block
RoundTripSegment1 ==
    UNION {{DictOf(ids, LAMBDA id : Chunk(id, 0, length[id])) :
              length \in [ids -> RoundTripLengths]} :
           ids \in SUBSET RoundTripIds1}

RoundTripInit ==
    /\ segment0Blocks \in RoundTripSegment0
    /\ segment1Blocks \in RoundTripSegment1
    /\ stream = <<>>
    /\ loaded = NewContainer
    /\ ModelIdle
    /\ CallIdle
    /\ phase = "new"

RoundTripNext == WriteStream \/ ReadStream

RoundTripSpec == RoundTripInit /\ [][RoundTripNext]_vars

\* C28 (as claimed): for every container whose segment-0 blocks have ids of
\* the record-size table and records of the size of the table, and whose
\* segment-1 blocks have ids in 0..63, writeStream followed by readStream
\* into a new container gives the same segment0Blocks (ids, records, order)
\* and the same segment1Blocks (ids, contents byte for byte), whichever
\* segment-1 ids are present.
C28_RoundTrip ==
    phase = "reread" =>
        /\ loaded.err = NoError
        /\ loaded.seg0 = segment0Blocks
        /\ loaded.seg1 = segment1Blocks

\* the bytes the stream holds after segment-1 block 3
AfterBlock3 ==
    Concat([i \in 1..Len(SortedSeq({id \in DOMAIN segment1Blocks : id > 3})) |->
               segment1Blocks[SortedSeq({id \in DOMAIN segment1Blocks : id > 3})[i]]])

\* what the read gives: segment 0 and every segment-1 block but block 3 as
\* they were, block 3 with the bytes of the blocks written after it
C28_Block3ToTheEnd ==
    phase = "reread" =>
        /\ loaded.err = NoError
        /\ loaded.seg0 = segment0Blocks
        /\ DOMAIN loaded.seg1 = DOMAIN segment1Blocks
        /\ \A id \in DOMAIN segment1Blocks :
              loaded.seg1[id] = IF id = 3 THEN segment1Blocks[3] \o AfterBlock3
                                ELSE segment1Blocks[id]

\* a container with five bytes under id 3 and five bytes under id 4 has
\* been read back with ten bytes under id 3
C28_Block3Grown ==
    /\ phase = "reread"
    /\ segment0Blocks = <<>>
    /\ DOMAIN segment1Blocks = {3, 4}
    /\ Len(segment1Blocks[3]) = 5 /\ Len(segment1Blocks[4]) = 5
    /\ loaded.err = NoError
    /\ loaded.seg1[3] = segment1Blocks[3] \o segment1Blocks[4]
    /\ loaded.seg1[4] = segment1Blocks[4]

\* a container with blocks under segment-0 ids and the segment-1 ids 0 and
\* 3 has been read back as it was
C28_Unchanged ==
    /\ phase = "reread"
    /\ DOMAIN segment0Blocks = RoundTripIds0
    /\ Len(segment0Blocks[11]) = 2
    /\ DOMAIN segment1Blocks = {0, 3}
    /\ Len(segment1Blocks[0]) = 5 /\ Len(segment1Blocks[3]) = 5
    /\ loaded.err = NoError
    /\ loaded.seg0 = segment0Blocks /\ loaded.seg1 = segment1Blocks


(***************************************************************************)
(* parseFloat16 of a 16-bit pattern, then encodeFloat16 of the float       *)
(***************************************************************************)
\* every 16-bit pattern
Int16Patterns == 0..(2^16 - 1)

PatternsInit ==
    /\ ContainerIdle /\ ModelIdle
    /\ args \in [op : {"parse"}, value : Int16Patterns]
    /\ ret = <<>>
    /\ phase = "new"

\* FmdlFile.parseFloat16 of the pattern given
ParsePattern ==
    /\ phase = "new"
    /\ ret' = [floatValue |-> parseFloat16(args.value)]
    /\ phase' = "parsed"
    /\ UNCHANGED <<containerVars, modelVars, args>>

\* FmdlFile.encodeFloat16 of the float parsed
EncodeParsed ==
    /\ phase = "parsed"
    /\ ret' = [floatValue |-> ret.floatValue, int16 |-> encodeFloat16(ret.floatValue)]
    /\ phase' = "reencoded"
    /\ UNCHANGED <<containerVars, modelVars, args>>

PatternsNext == ParsePattern \/ EncodeParsed

PatternsSpec == PatternsInit /\ [][PatternsNext]_vars

\* the pattern is that of a finite half other than -0.0
FiniteNotNegativeZero(int16) == (int16 \div 1024) % 32 # 31 /\ int16 # 32768

\* C29: for every 16-bit pattern h of a finite half other than negative
\* zero (exponent field not 31, h # 0x8000), encodeFloat16(parseFloat16(h))
\* is h, for subnormal and normalized values of either sign.
C29_PatternKept ==
    (phase = "reencoded" /\ FiniteNotNegativeZero(args.value)) =>
        /\ ret.floatValue.kind = "finite"
        /\ ret.floatValue.neg = (args.value >= 32768)
        /\ ret.int16 = args.value

\* C29 witness: the pattern 0x83FF of the largest subnormal, negative, has
\* been parsed as -1023 * 2^-24 and encoded as 0x83FF again.
C29_Witness ==
    /\ phase = "reencoded"
    /\ args.value = 33791
    /\ ret.floatValue = [kind |-> "finite", neg |-> TRUE, num |-> 1023, exp |-> -24]
    /\ ret.int16 = 33791

\* the pattern 0x7BFF of the largest half has been parsed and encoded as
\* 0x7BFF again
C29_Largest ==
    /\ phase = "reencoded"
    /\ args.value = 31743
    /\ ret.floatValue = [kind |-> "finite", neg |-> FALSE, num |-> 2047, exp |-> 5]
    /\ ret.int16 = 31743

\* the pattern 0x8000 of -0.0 has been parsed and encoded as 0x0000
C29_NegativeZero ==
    /\ phase = "reencoded"
    /\ args.value = 32768
    /\ ret.floatValue = NegativeZero
    /\ ret.int16 = 0

====
